---- MODULE Spec2Model ----
(***************************************************************************)
(* Authentication and session-security subsystem of the icon store server: *)
(* register / login / refresh / logout / logout-all over the relational    *)
(* tables users, refresh_tokens and security_audit                         *)
(* (server/routes/auth.js and server/middleware/auth.js).                  *)
(*                                                                         *)
(* Every request is an asynchronous task.  A request slot p holds the      *)
(* task's position pc[p]; one action is one run of the handler from one    *)
(* suspension point (an awaited store query) to the next, so the           *)
(* interleavings of the model are the interleavings of the awaits.         *)
(* Strings are sequences of one-character strings, so that lower-casing,   *)
(* length and character-class tests are computed and not assumed.          *)
(* Time is counted in seconds.                                             *)
(***************************************************************************)
EXTENDS Integers, Sequences, FiniteSets, TLC

VARIABLES
    users,           \* table users
    refresh_tokens,  \* table refresh_tokens (the ledger)
    security_audit,  \* table security_audit
    now,             \* wall clock, seconds
    nextUserId,      \* next generated users.id (gen_random_uuid)
    nextTokenId,     \* next generated refresh_tokens.id
    secrets,         \* the two signing secrets read from the environment
    client,          \* the web client: auth slice, token manager, requests of api
    poolUp,          \* the connection pool reaches the database (pool.query succeeds)
    rateLimitStore,  \* the hit counters of the rate limiters, per bucket and client IP
    pc,              \* pc[p]: suspension point of the request in slot p
    req,             \* req[p]: the request (body and bearer token)
    loc,             \* loc[p]: the handler's local variables
    resp,            \* resp[p]: the response sent, or NoResp
    issued,          \* every token ever sent to a client in a response
    nticks           \* number of clock advances

vars == <<users, refresh_tokens, security_audit, now, nextUserId, nextTokenId,
          secrets, client, poolUp, rateLimitStore, pc, req, loc, resp, issued, nticks>>

----------------------------------------------------------------------------
(* Bounds of the model *)

MaxUsers == 2
MaxTokens == 2
MaxTicks == 1
MaxExcess == 2
MaxOtherHits == 2
MaxSends == 3

(* The request slots: two requests can be in flight at once. *)
Procs == {"r1", "r2"}

----------------------------------------------------------------------------
(* Program constants *)

ACCESS_TTL == 900
REFRESH_TTL == 604800
EXPIRES_IN == 900
SALT_ROUNDS == 12
USERNAME_MIN == 3
USERNAME_MAX == 30
PASSWORD_MIN == 8
WINDOW_S == 900
AUTH_MAX == 10
REFRESH_MAX == 30
RETRY_AFTER == 900

----------------------------------------------------------------------------
(* Strings *)

LowerChars == {"a", "b", "c", "d", "i", "l", "o", "p", "r", "s", "w", "x"}
UpperChars == {"A", "B", "L", "P", "W"}
DigitChars == {"0", "1"}

(* String.prototype.toLowerCase on one character *)
LowerChar(c) ==
    CASE c = "A" -> "a"
      [] c = "B" -> "b"
      [] c = "L" -> "l"
      [] c = "P" -> "p"
      [] c = "W" -> "w"
      [] OTHER -> c

toLowerCase(s) == [i \in DOMAIN s |-> LowerChar(s[i])]

(* The strings the clients send *)
EmailLo == <<"a", "@", "x", ".", "c", "o">>
EmailUp == <<"A", "@", "x", ".", "c", "o">>
EmailB == <<"b", "@", "x", ".", "c", "o">>
EmailBad == <<"a", "x", ".", "c", "o">>
NameLo == <<"a", "l", "i">>
NameUp == <<"A", "l", "i">>
NameBob == <<"b", "o", "b">>
NameShort == <<"a", "l">>
NameDash == <<"a", "-", "l">>
GoodPw == <<"P", "a", "s", "s", "w", "0", "r", "d">>
WrongPw == <<"W", "r", "o", "o", "o", "o", "1", "a">>
ShortPw == <<"s", "i", "x">>
NoLowerPw == <<"P", "A", "S", "S", "W", "0", "L", "A">>
NoUpperPw == <<"a", "a", "s", "s", "w", "0", "r", "d">>
NoDigitPw == <<"P", "a", "s", "s", "w", "o", "r", "d">>
Missing == <<>>

----------------------------------------------------------------------------
(* Input validation *)

Count(s, c) == Cardinality({i \in DOMAIN s : s[i] = c})

(* validator.isEmail: one "@", a local part, a domain with a top-level part *)
isEmail(s) ==
    /\ Count(s, "@") = 1
    /\ LET at == CHOOSE i \in DOMAIN s : s[i] = "@"
       IN /\ at > 1
          /\ at < Len(s)
          /\ \E d \in (at + 2)..(Len(s) - 1) : s[d] = "."
          /\ s[Len(s)] # "."

(* /^[a-zA-Z0-9_]+$/ *)
usernameCharsOk(s) ==
    /\ Len(s) > 0
    /\ \A i \in DOMAIN s : s[i] \in LowerChars \cup UpperChars \cup DigitChars \cup {"_"}

(* The password rules without the rule of the digit *)
validatePasswordWithoutDigit(password) ==
    IF Len(password) < PASSWORD_MIN
    THEN "Password must be at least 8 characters long"
    ELSE IF ~\E i \in DOMAIN password : password[i] \in LowerChars
    THEN "Password must contain at least one lowercase letter"
    ELSE IF ~\E i \in DOMAIN password : password[i] \in UpperChars
    THEN "Password must contain at least one uppercase letter"
    ELSE "null"

(* validatePassword: the message of the first rule broken, or "null" *)
validatePassword(password) ==
    IF Len(password) < PASSWORD_MIN
    THEN "Password must be at least 8 characters long"
    ELSE IF ~\E i \in DOMAIN password : password[i] \in LowerChars
    THEN "Password must contain at least one lowercase letter"
    ELSE IF ~\E i \in DOMAIN password : password[i] \in UpperChars
    THEN "Password must contain at least one uppercase letter"
    ELSE IF ~\E i \in DOMAIN password : password[i] \in DigitChars
    THEN "Password must contain at least one number"
    ELSE "null"

----------------------------------------------------------------------------
(* Password hasher and token digest *)

(* bcrypt.hash: the stored string carries the algorithm tag and the cost *)
bcryptHash(password, rounds) ==
    <<"$", "2", "b", "$">> \o (IF rounds = 12 THEN <<"1", "2">> ELSE <<"0", "0">>)
        \o <<"$">> \o password

(* The comparison of the password with the stored string as it is *)
bcryptCompareVerbatim(password, hash) == hash = password

(* bcrypt.compare *)
bcryptCompare(password, hash) ==
    /\ Len(hash) >= 7
    /\ SubSeq(hash, 1, 4) = <<"$", "2", "b", "$">>
    /\ SubSeq(hash, 8, Len(hash)) = password

(* No digest: the token itself *)
sha256Identity(token) == token

(* crypto.createHash('sha256').update(token).digest('hex') *)
sha256(token) == [sha256 |-> token]

----------------------------------------------------------------------------
(* Token codec (jsonwebtoken) *)

(* jwt.sign(payload, secret, {expiresIn}): iat is the clock in seconds *)
jwtSign(payload, secret, ttl, t) ==
    [payload |-> payload, key |-> secret, iat |-> t, exp |-> t + ttl]

(* The verification of the signature alone *)
jwtVerifyIgnoringExpiry(token, secret, t) ==
    IF token.key # secret THEN "JsonWebTokenError" ELSE "ok"

(* jwt.verify: "ok", "JsonWebTokenError" or "TokenExpiredError" *)
jwtVerify(token, secret, t) ==
    IF token.key # secret THEN "JsonWebTokenError"
    ELSE IF t >= token.exp THEN "TokenExpiredError"
    ELSE "ok"

(* decoded.type, undefined when the payload has no such claim *)
payloadType(payload) ==
    IF "type" \in DOMAIN payload THEN payload.type ELSE "undefined"

generateAccessToken(userId, t) ==
    jwtSign([userId |-> userId], secrets.JWT_SECRET, ACCESS_TTL, t)

generateRefreshToken(userId, t) ==
    jwtSign([userId |-> userId, type |-> "refresh"], secrets.JWT_REFRESH_SECRET,
            REFRESH_TTL, t)

(* The verification without the test of the type claim *)
verifyRefreshTokenAnyType(token, t) ==
    jwtVerify(token, secrets.JWT_REFRESH_SECRET, t) = "ok"

(* verifyRefreshToken: TRUE when it returns the claims, FALSE when it throws *)
verifyRefreshToken(token, t) ==
    /\ jwtVerify(token, secrets.JWT_REFRESH_SECRET, t) = "ok"
    /\ payloadType(token.payload) = "refresh"

(* A token no secret of the server signed *)
ForgedToken ==
    [payload |-> [userId |-> 1, type |-> "refresh"], key |-> "forged",
     iat |-> 0, exp |-> REFRESH_TTL]

(* An absent token: no refresh_token in the body, no Authorization header *)
NoToken == [payload |-> [userId |-> 0], key |-> "none", iat |-> 0, exp |-> 0]

----------------------------------------------------------------------------
(* Store queries *)

(* The INSERT that writes nothing and reports success *)
storeRefreshTokenDropped(id, userId, tokenHash, expiresAt) == refresh_tokens

(* storeRefreshToken: INSERT INTO refresh_tokens *)
storeRefreshToken(id, userId, tokenHash, expiresAt) ==
    refresh_tokens \cup
        {[id |-> id, user_id |-> userId, token_hash |-> tokenHash,
          expires_at |-> expiresAt, is_revoked |-> FALSE]}

(* The UPDATE that flips is_revoked instead of setting it *)
revokeRefreshTokenToggling(tokenHash) ==
    {IF r.token_hash = tokenHash THEN [r EXCEPT !.is_revoked = ~r.is_revoked] ELSE r :
        r \in refresh_tokens}

(* The UPDATE without its WHERE clause *)
revokeRefreshTokenUnfiltered(tokenHash) ==
    {[r EXCEPT !.is_revoked = TRUE] : r \in refresh_tokens}

(* revokeRefreshToken: UPDATE ... SET is_revoked = TRUE WHERE token_hash = $1 *)
revokeRefreshToken(tokenHash) ==
    {IF r.token_hash = tokenHash THEN [r EXCEPT !.is_revoked = TRUE] ELSE r :
        r \in refresh_tokens}

(* The UPDATE without its WHERE clause *)
revokeAllUserTokensOfEveryone(userId) ==
    {[r EXCEPT !.is_revoked = TRUE] : r \in refresh_tokens}

(* revokeAllUserTokens: UPDATE ... SET is_revoked = TRUE WHERE user_id = $1 *)
revokeAllUserTokens(userId) ==
    {IF r.user_id = userId THEN [r EXCEPT !.is_revoked = TRUE] ELSE r :
        r \in refresh_tokens}

(* The SELECT on the digest alone *)
isRefreshTokenValidAnyRecord(tokenHash) ==
    {r \in refresh_tokens : r.token_hash = tokenHash}

(* The SELECT without its is_revoked condition *)
isRefreshTokenValidIgnoringRevoked(tokenHash) ==
    {r \in refresh_tokens : r.token_hash = tokenHash /\ r.expires_at > now}

(* isRefreshTokenValid: the rows the SELECT returns; empty means null *)
isRefreshTokenValid(tokenHash) ==
    {r \in refresh_tokens :
        r.token_hash = tokenHash /\ r.is_revoked = FALSE /\ r.expires_at > now}

(* logSecurityAudit: INSERT INTO security_audit *)
logSecurityAudit(userId, eventType) ==
    security_audit \cup {[id |-> Cardinality(security_audit) + 1, user_id |-> userId,
                          event_type |-> eventType]}

(* SELECT ... FROM users WHERE id = $1 *)
usersById(userId) == {u \in users : u.id = userId}

(* SELECT ... FROM users WHERE email = $1 *)
usersByEmail(email) == {u \in users : u.email = email}

(* The SELECT on the user name alone *)
existingUserByNameOnly(email, username) ==
    {u \in users : u.username = username}

(* SELECT email, username FROM users WHERE email = $1 OR username = $2 *)
existingUser(email, username) ==
    {u \in users : u.email = email \/ u.username = username}

(* The UNIQUE constraints of users.email and users.username *)
uniqueViolation(email, username) ==
    \E u \in users : u.email = email \/ u.username = username


----------------------------------------------------------------------------
(* Requests, responses and what the clients can send *)

NoReq == [op |-> "none"]
NoLoc == [none |-> TRUE]
NoResp == [status |-> 0]

Json(status, body) == [status |-> status, body |-> body]

(* The register bodies the clients send: every combination of the valid
   e-mail addresses and user names, and one body for each validation rule *)
RegisterBodies ==
    {[email |-> e, username |-> u, password |-> GoodPw] :
        e \in {EmailLo, EmailUp, EmailB}, u \in {NameLo, NameUp, NameBob}}
    \cup {[email |-> Missing, username |-> NameLo, password |-> GoodPw],
          [email |-> EmailBad, username |-> NameLo, password |-> GoodPw],
          [email |-> EmailLo, username |-> NameShort, password |-> GoodPw],
          [email |-> EmailLo, username |-> NameDash, password |-> GoodPw],
          [email |-> EmailLo, username |-> NameLo, password |-> ShortPw],
          [email |-> EmailLo, username |-> NameLo, password |-> NoLowerPw],
          [email |-> EmailLo, username |-> NameLo, password |-> NoUpperPw],
          [email |-> EmailLo, username |-> NameLo, password |-> NoDigitPw]}

LoginBodies ==
    {[email |-> e, password |-> w] :
        e \in {EmailLo, EmailUp, EmailB}, w \in {GoodPw, WrongPw}}
    \cup {[email |-> Missing, password |-> GoodPw]}

(* The bodies of the two clients of the session specification *)
SessionRegisterBodies ==
    {[email |-> EmailLo, username |-> NameLo, password |-> GoodPw],
     [email |-> EmailB, username |-> NameBob, password |-> GoodPw]}

SessionLoginBodies ==
    {[email |-> e, password |-> w] : e \in {EmailLo, EmailB}, w \in {GoodPw, WrongPw}}

(* The bodies of the clients that register with each other's address and
   user name *)
ConflictRegisterBodies ==
    {[email |-> e, username |-> u, password |-> GoodPw] :
        e \in {EmailLo, EmailUp, EmailB}, u \in {NameLo, NameBob}}

(* The bodies of the one client of the fault specification *)
FaultRegisterBodies == {[email |-> EmailB, username |-> NameBob, password |-> GoodPw]}

FaultLoginBodies == {[email |-> EmailB, password |-> w] : w \in {GoodPw, WrongPw}}

(* The tokens a client can present: the ones it was sent, or one it made up *)
Presentable == issued \cup {ForgedToken}

(* The refresh tokens among them *)
PresentableRefresh == {t \in Presentable : payloadType(t.payload) = "refresh"}

(* A request arrives in a free slot *)
Start(p, r) ==
    /\ pc[p] = "idle"
    /\ req' = [req EXCEPT ![p] = r]

(* res.status(..).json(..): the handler is over *)
Respond(p, r) ==
    /\ resp' = [resp EXCEPT ![p] = r]
    /\ pc' = [pc EXCEPT ![p] = "idle"]
    /\ loc' = [loc EXCEPT ![p] = NoLoc]

(* The handler awaits its next query *)
Await(p, label, locals) ==
    /\ pc' = [pc EXCEPT ![p] = label]
    /\ loc' = [loc EXCEPT ![p] = locals]
    /\ resp' = [resp EXCEPT ![p] = NoResp]

----------------------------------------------------------------------------
(* Rate limiters (express-rate-limit with its memory store): one store per
   limiter, one entry per client IP *)

IPs == {"ip1", "ip2"}
Buckets == {"auth", "refresh"}

NoHits == [totalHits |-> 0, resetTime |-> 0]

(* The store counts on from the entry of a window that has begun and not
   ended, whatever the clock says afterwards *)
incrementNeverResetting(bucket, ip) ==
    LET entry == rateLimitStore[bucket][ip]
    IN IF entry.totalHits = 0
       THEN [totalHits |-> 1, resetTime |-> now + WINDOW_S]
       ELSE [entry EXCEPT !.totalHits = @ + 1]

(* store.increment(key): the client's entry after this request is counted; a
   window begins with the client's first request and lasts windowMs *)
increment(bucket, ip) ==
    LET entry == rateLimitStore[bucket][ip]
    IN IF entry.totalHits = 0 \/ entry.resetTime <= now
       THEN [totalHits |-> 1, resetTime |-> now + WINDOW_S]
       ELSE [entry EXCEPT !.totalHits = @ + 1]

(* rateLimit(options): the middleware counts the request, then either sends
   status 429 with the configured message or calls next() *)
rateLimit(bucket, max, message, ip, p, r, next) ==
    LET entry == increment(bucket, ip)
    IN
    /\ entry.totalHits <= max + MaxExcess
    /\ rateLimitStore' = [rateLimitStore EXCEPT ![bucket][ip] = entry]
    /\ IF entry.totalHits > max
       THEN /\ Start(p, r)
            /\ Respond(p, Json(429, message))
            /\ UNCHANGED <<users, refresh_tokens, security_audit, now, nextUserId,
                           nextTokenId, secrets, client, poolUp, issued, nticks>>
       ELSE next

authRateLimit(ip, p, r, next) ==
    rateLimit("auth", AUTH_MAX,
              [error |-> "rate_limited", message |-> "Too many authentication attempts",
               retry_after |-> RETRY_AFTER],
              ip, p, r, next)

refreshRateLimit(ip, p, r, next) ==
    rateLimit("refresh", REFRESH_MAX,
              [error |-> "rate_limited", message |-> "Too many token refresh attempts",
               retry_after |-> RETRY_AFTER],
              ip, p, r, next)

----------------------------------------------------------------------------
(* POST /auth/register *)

ValidationError(message, details) ==
    Json(400, [error |-> "validation_error", message |-> message, details |-> details])

(* The catch block of a handler: a query threw *)
InternalError(message) == Json(500, [error |-> "internal_error", message |-> message])

(* The details of the 409 response, from the first row the query returned *)
ConflictDetails(existing, email, username) ==
    [f \in {g \in {"email", "username"} :
                \/ g = "email" /\ existing.email = toLowerCase(email)
                \/ g = "username" /\ existing.username = toLowerCase(username)}
        |-> IF f = "email" THEN "Email is already registered"
            ELSE "Username is already taken"]

(* The handler up to its first query: validation, then the query for an
   existing user.  Once MaxUsers users or MaxTokens ledger records were
   inserted, only the requests that meet an existing user are followed. *)
RegisterHandler(p, body) ==
    LET email == body.email
        username == body.username
        password == body.password
        rows == existingUser(toLowerCase(email), toLowerCase(username))
    IN
    /\ (nextUserId <= MaxUsers /\ nextTokenId <= MaxTokens) \/ rows # {}
    /\ Start(p, [op |-> "register", email |-> email, username |-> username,
                 password |-> password])
    /\ UNCHANGED <<users, refresh_tokens, security_audit, now, nextUserId,
                   nextTokenId, secrets, client, poolUp, issued, nticks>>
    /\ IF email = Missing \/ username = Missing \/ password = Missing
       THEN /\ Respond(p, ValidationError("Email, username, and password are required",
                    [email |-> IF email = Missing THEN "Email is required" ELSE "null",
                     username |-> IF username = Missing THEN "Username is required" ELSE "null",
                     password |-> IF password = Missing THEN "Password is required" ELSE "null"]))
       ELSE IF ~isEmail(email)
       THEN /\ Respond(p, ValidationError("Invalid email format",
                    [f \in {"email"} |-> "Invalid email format"]))
       ELSE IF Len(username) < USERNAME_MIN \/ Len(username) > USERNAME_MAX
       THEN /\ Respond(p, ValidationError("Username must be between 3 and 30 characters",
                    [f \in {"username"} |-> "Username must be between 3 and 30 characters"]))
       ELSE IF ~usernameCharsOk(username)
       THEN /\ Respond(p, ValidationError(
                    "Username can only contain letters, numbers, and underscores",
                    [f \in {"username"} |->
                        "Username can only contain letters, numbers, and underscores"]))
       ELSE IF validatePassword(password) # "null"
       THEN /\ Respond(p, ValidationError(validatePassword(password),
                    [f \in {"password"} |-> validatePassword(password)]))
       ELSE IF ~poolUp
       THEN /\ Respond(p, InternalError("Registration failed"))
       ELSE IF rows # {}
       THEN /\ \E existing \in rows :
                 Respond(p, Json(409, [error |-> "conflict",
                                       message |-> "User already exists",
                                       details |-> ConflictDetails(existing, email, username)]))
       ELSE Await(p, "reg_insert", NoLoc)

(* A Register that its limiter admits, while the tables have room; the
   limiter's count is not followed *)
RegisterCheck(p, body) ==
    /\ nextUserId <= MaxUsers
    /\ nextTokenId <= MaxTokens
    /\ RegisterHandler(p, body)
    /\ UNCHANGED rateLimitStore

(* A Register that its limiter admits, also when the tables are full *)
RegisterAgain(p, body) ==
    /\ RegisterHandler(p, body)
    /\ UNCHANGED rateLimitStore

(* router.post('/register', authRateLimit, ..) for the client at ip *)
RegisterLimited(p, ip, body) ==
    authRateLimit(ip, p,
                  [op |-> "register", email |-> body.email, username |-> body.username,
                   password |-> body.password],
                  /\ nextUserId <= MaxUsers
                  /\ nextTokenId <= MaxTokens
                  /\ RegisterHandler(p, body))

(* The insert with the address stored as it was typed *)
RegisterInsertAsTyped(p) ==
    LET email == toLowerCase(req[p].email)
        user == [id |-> nextUserId, email |-> req[p].email, username |-> req[p].username,
                 password_hash |-> bcryptHash(req[p].password, SALT_ROUNDS),
                 currency_balance |-> 0,
                 is_active |-> TRUE, last_login |-> -1]
    IN
    /\ pc[p] = "reg_insert"
    /\ UNCHANGED <<refresh_tokens, security_audit, now, nextTokenId, secrets, client, poolUp,
                   rateLimitStore, req, issued, nticks>>
    /\ IF ~poolUp \/ uniqueViolation(email, req[p].username)
       THEN /\ Respond(p, InternalError("Registration failed"))
            /\ UNCHANGED <<users, nextUserId>>
       ELSE /\ users' = users \cup {user}
            /\ nextUserId' = nextUserId + 1
            /\ Await(p, "reg_store", [user |-> user])

(* bcrypt.hash, then INSERT INTO users; a constraint violation is caught *)
RegisterInsert(p) ==
    LET email == toLowerCase(req[p].email)
        user == [id |-> nextUserId, email |-> email, username |-> req[p].username,
                 password_hash |-> bcryptHash(req[p].password, SALT_ROUNDS),
                 currency_balance |-> 0,
                 is_active |-> TRUE, last_login |-> -1]
    IN
    /\ pc[p] = "reg_insert"
    /\ UNCHANGED <<refresh_tokens, security_audit, now, nextTokenId, secrets, client, poolUp,
                   rateLimitStore, req, issued, nticks>>
    /\ IF ~poolUp \/ uniqueViolation(email, req[p].username)
       THEN /\ Respond(p, InternalError("Registration failed"))
            /\ UNCHANGED <<users, nextUserId>>
       ELSE /\ users' = users \cup {user}
            /\ nextUserId' = nextUserId + 1
            /\ Await(p, "reg_store", [user |-> user])

(* The tokens are signed and the refresh token's digest goes to the ledger;
   storeRefreshToken throws when the query fails (no connection, or the
   foreign key when the user row is gone) *)
RegisterStore(p) ==
    LET user == loc[p].user
        accessToken == generateAccessToken(user.id, now)
        refreshToken == generateRefreshToken(user.id, now)
        refreshTokenHash == sha256(refreshToken)
        expiresAt == now + REFRESH_TTL
    IN
    /\ pc[p] = "reg_store"
    /\ UNCHANGED <<users, security_audit, now, nextUserId, secrets, client, poolUp,
                   rateLimitStore, req, issued, nticks>>
    /\ IF ~poolUp \/ usersById(user.id) = {}
       THEN /\ Respond(p, InternalError("Registration failed"))
            /\ UNCHANGED <<refresh_tokens, nextTokenId>>
       ELSE /\ refresh_tokens' = storeRefreshToken(nextTokenId, user.id, refreshTokenHash,
                                                    expiresAt)
            /\ nextTokenId' = nextTokenId + 1
            /\ Await(p, "reg_audit", [user |-> user, accessToken |-> accessToken,
                                      refreshToken |-> refreshToken])

TokensBody(accessToken, refreshToken) ==
    [access_token |-> accessToken, refresh_token |-> refreshToken,
     expires_in |-> EXPIRES_IN]

(* The audit entry (a failed insert is only logged), then the 201 response *)
RegisterAudit(p) ==
    LET user == loc[p].user
    IN
    /\ pc[p] = "reg_audit"
    /\ UNCHANGED <<users, refresh_tokens, now,
                   nextUserId, nextTokenId, secrets, client, poolUp, rateLimitStore, req, nticks>>
    /\ IF ~poolUp \/ usersById(user.id) = {}
       THEN UNCHANGED security_audit
       ELSE security_audit' = logSecurityAudit(user.id, "registration")
    /\ Respond(p, Json(201,
            [user |-> [id |-> user.id, email |-> user.email, username |-> user.username,
                       currency_balance |-> user.currency_balance],
             tokens |-> TokensBody(loc[p].accessToken, loc[p].refreshToken)]))
    /\ issued' = issued \cup {loc[p].accessToken, loc[p].refreshToken}


----------------------------------------------------------------------------
(* POST /auth/login *)

Unauthorized(error, message) == Json(401, [error |-> error, message |-> message])

(* The lookup that tells a wrong password from an unknown e-mail address *)
loginLookupTellingWrongPassword(email, password) ==
    LET rows == usersByEmail(toLowerCase(email))
    IN
    IF email = Missing \/ password = Missing
    THEN [next |-> FALSE,
          res |-> Json(400, [error |-> "validation_error",
                             message |-> "Email and password are required"])]
    ELSE IF ~poolUp
    THEN [next |-> FALSE, res |-> InternalError("Login failed")]
    ELSE IF rows = {}
    THEN [next |-> FALSE,
          res |-> Unauthorized("invalid_credentials", "Invalid email or password")]
    ELSE LET user == CHOOSE u \in rows : TRUE
         IN IF ~user.is_active
            THEN [next |-> FALSE,
                  res |-> Unauthorized("account_deactivated",
                                       "Account has been deactivated")]
            ELSE IF ~bcryptCompare(password, user.password_hash)
            THEN [next |-> FALSE,
                  res |-> Unauthorized("invalid_credentials", "Invalid password")]
            ELSE [next |-> TRUE, user |-> user]

(* Validation, the user query, the active flag and bcrypt.compare: the
   response the handler sends before it writes anything, or the user row *)
loginLookup(email, password) ==
    LET rows == usersByEmail(toLowerCase(email))
    IN
    IF email = Missing \/ password = Missing
    THEN [next |-> FALSE,
          res |-> Json(400, [error |-> "validation_error",
                             message |-> "Email and password are required"])]
    ELSE IF ~poolUp
    THEN [next |-> FALSE, res |-> InternalError("Login failed")]
    ELSE IF rows = {}
    THEN [next |-> FALSE,
          res |-> Unauthorized("invalid_credentials", "Invalid email or password")]
    ELSE LET user == CHOOSE u \in rows : TRUE
         IN IF ~user.is_active
            THEN [next |-> FALSE,
                  res |-> Unauthorized("account_deactivated",
                                       "Account has been deactivated")]
            ELSE IF ~bcryptCompare(password, user.password_hash)
            THEN [next |-> FALSE,
                  res |-> Unauthorized("invalid_credentials",
                                       "Invalid email or password")]
            ELSE [next |-> TRUE, user |-> user]

(* The handler up to its first write *)
LoginHandler(p, body) ==
    LET found == loginLookup(body.email, body.password)
    IN
    /\ nextTokenId <= MaxTokens
    /\ Start(p, [op |-> "login", email |-> body.email, password |-> body.password])
    /\ UNCHANGED <<users, refresh_tokens, security_audit, now, nextUserId,
                   nextTokenId, secrets, client, poolUp, issued, nticks>>
    /\ IF ~found.next
       THEN Respond(p, found.res)
       ELSE Await(p, "login_store", [user |-> found.user])

(* A Login that its limiter admits; the limiter's count is not followed *)
LoginLookup(p, body) ==
    /\ LoginHandler(p, body)
    /\ UNCHANGED rateLimitStore

(* router.post('/login', authRateLimit, ..) for the client at ip *)
LoginLimited(p, ip, body) ==
    authRateLimit(ip, p,
                  [op |-> "login", email |-> body.email, password |-> body.password],
                  LoginHandler(p, body))

(* The tokens are signed and the refresh token's digest goes to the ledger *)
LoginStore(p) ==
    LET user == loc[p].user
        accessToken == generateAccessToken(user.id, now)
        refreshToken == generateRefreshToken(user.id, now)
        refreshTokenHash == sha256(refreshToken)
        expiresAt == now + REFRESH_TTL
    IN
    /\ pc[p] = "login_store"
    /\ UNCHANGED <<users, security_audit, now, nextUserId, secrets, client, poolUp,
                   rateLimitStore, req, issued, nticks>>
    /\ IF ~poolUp \/ usersById(user.id) = {}
       THEN /\ Respond(p, InternalError("Login failed"))
            /\ UNCHANGED <<refresh_tokens, nextTokenId>>
       ELSE /\ refresh_tokens' = storeRefreshToken(nextTokenId, user.id, refreshTokenHash,
                                                    expiresAt)
            /\ nextTokenId' = nextTokenId + 1
            /\ Await(p, "login_update", [user |-> user, accessToken |-> accessToken,
                                         refreshToken |-> refreshToken])

(* The step that leaves last_login as it was *)
LoginUpdateSkipped(p) ==
    /\ pc[p] = "login_update"
    /\ UNCHANGED <<users, refresh_tokens, security_audit, now, nextUserId,
                   nextTokenId, secrets, client, poolUp, rateLimitStore, req, issued, nticks>>
    /\ IF ~poolUp
       THEN Respond(p, InternalError("Login failed"))
       ELSE /\ pc' = [pc EXCEPT ![p] = "login_audit"]
            /\ UNCHANGED <<loc, resp>>

(* UPDATE users SET last_login = NOW() WHERE id = $1 *)
LoginUpdate(p) ==
    /\ pc[p] = "login_update"
    /\ UNCHANGED <<refresh_tokens, security_audit, now, nextUserId,
                   nextTokenId, secrets, client, poolUp, rateLimitStore, req, issued, nticks>>
    /\ IF ~poolUp
       THEN /\ Respond(p, InternalError("Login failed"))
            /\ UNCHANGED users
       ELSE /\ users' = {IF u.id = loc[p].user.id THEN [u EXCEPT !.last_login = now]
                         ELSE u : u \in users}
            /\ pc' = [pc EXCEPT ![p] = "login_audit"]
            /\ UNCHANGED <<loc, resp>>

(* The audit step with a failed insert reaching the handler's catch *)
LoginAuditRethrowing(p) ==
    LET user == loc[p].user
    IN
    /\ pc[p] = "login_audit"
    /\ UNCHANGED <<users, refresh_tokens, now,
                   nextUserId, nextTokenId, secrets, client, poolUp, rateLimitStore, req, nticks>>
    /\ IF ~poolUp \/ usersById(user.id) = {}
       THEN /\ UNCHANGED <<security_audit, issued>>
            /\ Respond(p, InternalError("Login failed"))
       ELSE /\ security_audit' = logSecurityAudit(user.id, "login")
            /\ Respond(p, Json(200,
                   [user |-> [id |-> user.id, email |-> user.email,
                              username |-> user.username,
                              currency_balance |-> user.currency_balance],
                    tokens |-> TokensBody(loc[p].accessToken, loc[p].refreshToken)]))
            /\ issued' = issued \cup {loc[p].accessToken, loc[p].refreshToken}

(* The audit entry (a failed insert is only logged), then the 200 response *)
LoginAudit(p) ==
    LET user == loc[p].user
    IN
    /\ pc[p] = "login_audit"
    /\ UNCHANGED <<users, refresh_tokens, now,
                   nextUserId, nextTokenId, secrets, client, poolUp, rateLimitStore, req, nticks>>
    /\ IF ~poolUp \/ usersById(user.id) = {}
       THEN UNCHANGED security_audit
       ELSE security_audit' = logSecurityAudit(user.id, "login")
    /\ Respond(p, Json(200,
            [user |-> [id |-> user.id, email |-> user.email, username |-> user.username,
                       currency_balance |-> user.currency_balance],
             tokens |-> TokensBody(loc[p].accessToken, loc[p].refreshToken)]))
    /\ issued' = issued \cup {loc[p].accessToken, loc[p].refreshToken}

----------------------------------------------------------------------------
(* POST /auth/refresh *)

(* The handler up to its user query: validation, verifyRefreshToken and the
   ledger query *)
RefreshHandler(p, refresh_token) ==
    LET tokenHash == sha256(refresh_token)
    IN
    /\ Start(p, [op |-> "refresh", refresh_token |-> refresh_token])
    /\ UNCHANGED <<users, refresh_tokens, security_audit, now, nextUserId,
                   nextTokenId, secrets, client, poolUp, issued, nticks>>
    /\ IF refresh_token = NoToken
       THEN /\ Respond(p, Json(400, [error |-> "validation_error",
                                     message |-> "Refresh token is required"]))
       ELSE IF ~verifyRefreshToken(refresh_token, now)
       THEN /\ Respond(p, Unauthorized("invalid_token", "Invalid or expired refresh token"))
       ELSE IF ~poolUp
       THEN /\ Respond(p, InternalError("Token refresh failed"))
       ELSE IF isRefreshTokenValid(tokenHash) = {}
       THEN /\ Respond(p, Unauthorized("invalid_token",
                                       "Refresh token is invalid or expired"))
       ELSE Await(p, "ref_user", [decoded |-> refresh_token.payload,
                                  tokenHash |-> tokenHash])

(* A Refresh that its limiter admits; the limiter's count is not followed *)
RefreshCheck(p, refresh_token) ==
    /\ RefreshHandler(p, refresh_token)
    /\ UNCHANGED rateLimitStore

(* router.post('/refresh', refreshRateLimit, ..) for the client at ip *)
RefreshLimited(p, ip, refresh_token) ==
    refreshRateLimit(ip, p, [op |-> "refresh", refresh_token |-> refresh_token],
                     RefreshHandler(p, refresh_token))

(* The handler that spends the refresh token: its record is revoked when the
   new access token is returned *)
RefreshUserSpendingToken(p) ==
    LET rows == usersById(loc[p].decoded.userId)
    IN
    /\ pc[p] = "ref_user"
    /\ UNCHANGED <<users, security_audit, now, nextUserId,
                   nextTokenId, secrets, client, poolUp, rateLimitStore, req, nticks>>
    /\ IF ~poolUp
       THEN /\ Respond(p, InternalError("Token refresh failed"))
            /\ UNCHANGED <<issued, refresh_tokens>>
       ELSE IF rows = {} \/ \E u \in rows : ~u.is_active
       THEN /\ pc' = [pc EXCEPT ![p] = "ref_revoke"]
            /\ UNCHANGED <<loc, resp, issued, refresh_tokens>>
       ELSE \E user \in rows :
            LET accessToken == generateAccessToken(user.id, now)
            IN /\ Respond(p, Json(200, [access_token |-> accessToken,
                                        expires_in |-> EXPIRES_IN]))
               /\ issued' = issued \cup {accessToken}
               /\ refresh_tokens' = revokeRefreshToken(loc[p].tokenHash)

(* The user query, then the new access token *)
RefreshUser(p) ==
    LET rows == usersById(loc[p].decoded.userId)
    IN
    /\ pc[p] = "ref_user"
    /\ UNCHANGED <<users, refresh_tokens, security_audit, now, nextUserId,
                   nextTokenId, secrets, client, poolUp, rateLimitStore, req, nticks>>
    /\ IF ~poolUp
       THEN /\ Respond(p, InternalError("Token refresh failed"))
            /\ UNCHANGED issued
       ELSE IF rows = {} \/ \E u \in rows : ~u.is_active
       THEN /\ pc' = [pc EXCEPT ![p] = "ref_revoke"]
            /\ UNCHANGED <<loc, resp, issued>>
       ELSE \E user \in rows :
            LET accessToken == generateAccessToken(user.id, now)
            IN /\ Respond(p, Json(200, [access_token |-> accessToken,
                                        expires_in |-> EXPIRES_IN]))
               /\ issued' = issued \cup {accessToken}

(* The presented token's record is revoked when its user is missing or inactive *)
RefreshRevoke(p) ==
    /\ pc[p] = "ref_revoke"
    /\ IF ~poolUp
       THEN /\ Respond(p, InternalError("Token refresh failed"))
            /\ UNCHANGED refresh_tokens
       ELSE /\ refresh_tokens' = revokeRefreshToken(loc[p].tokenHash)
            /\ Respond(p, Unauthorized("invalid_user", "User not found or deactivated"))
    /\ UNCHANGED <<users, security_audit, now, nextUserId,
                   nextTokenId, secrets, client, poolUp, rateLimitStore, req, issued, nticks>>

----------------------------------------------------------------------------
(* authenticateToken, POST /auth/logout, POST /auth/logout-all *)

(* The middleware without the test of is_active *)
authenticateTokenIgnoringActive(token) ==
    LET verdict == jwtVerify(token, secrets.JWT_SECRET, now)
        rows == usersById(token.payload.userId)
    IN
    IF token = NoToken
    THEN [next |-> FALSE, res |-> Unauthorized("unauthorized", "Access token required")]
    ELSE IF verdict = "JsonWebTokenError"
    THEN [next |-> FALSE, res |-> Unauthorized("invalid_token", "Invalid access token")]
    ELSE IF verdict = "TokenExpiredError"
    THEN [next |-> FALSE, res |-> Unauthorized("token_expired", "Access token has expired")]
    ELSE IF ~poolUp
    THEN [next |-> FALSE, res |-> InternalError("Authentication error")]
    ELSE IF rows = {}
    THEN [next |-> FALSE, res |-> Unauthorized("unauthorized", "User not found")]
    ELSE [next |-> TRUE, user |-> CHOOSE u \in rows : TRUE]

(* The middleware asking the ledger for a live session of the user *)
authenticateTokenWithLedger(token) ==
    LET verdict == jwtVerify(token, secrets.JWT_SECRET, now)
        rows == usersById(token.payload.userId)
    IN
    IF token = NoToken
    THEN [next |-> FALSE, res |-> Unauthorized("unauthorized", "Access token required")]
    ELSE IF verdict = "JsonWebTokenError"
    THEN [next |-> FALSE, res |-> Unauthorized("invalid_token", "Invalid access token")]
    ELSE IF verdict = "TokenExpiredError"
    THEN [next |-> FALSE, res |-> Unauthorized("token_expired", "Access token has expired")]
    ELSE IF ~poolUp
    THEN [next |-> FALSE, res |-> InternalError("Authentication error")]
    ELSE IF rows = {}
    THEN [next |-> FALSE, res |-> Unauthorized("unauthorized", "User not found")]
    ELSE LET user == CHOOSE u \in rows : TRUE
         IN IF ~user.is_active
            THEN [next |-> FALSE,
                  res |-> Unauthorized("unauthorized", "Account is deactivated")]
            ELSE IF ~\E r \in refresh_tokens : r.user_id = user.id /\ ~r.is_revoked
            THEN [next |-> FALSE, res |-> Unauthorized("unauthorized", "Session revoked")]
            ELSE [next |-> TRUE, user |-> user]

(* The middleware: the response it sends, or next with req.user attached *)
authenticateToken(token) ==
    LET verdict == jwtVerify(token, secrets.JWT_SECRET, now)
        rows == usersById(token.payload.userId)
    IN
    IF token = NoToken
    THEN [next |-> FALSE, res |-> Unauthorized("unauthorized", "Access token required")]
    ELSE IF verdict = "JsonWebTokenError"
    THEN [next |-> FALSE, res |-> Unauthorized("invalid_token", "Invalid access token")]
    ELSE IF verdict = "TokenExpiredError"
    THEN [next |-> FALSE, res |-> Unauthorized("token_expired", "Access token has expired")]
    ELSE IF ~poolUp
    THEN [next |-> FALSE, res |-> InternalError("Authentication error")]
    ELSE IF rows = {}
    THEN [next |-> FALSE, res |-> Unauthorized("unauthorized", "User not found")]
    ELSE LET user == CHOOSE u \in rows : TRUE
         IN IF ~user.is_active
            THEN [next |-> FALSE,
                  res |-> Unauthorized("unauthorized", "Account is deactivated")]
            ELSE [next |-> TRUE, user |-> user]

(* The middleware, then the handler up to its query *)
LogoutAuth(p, bearer, refresh_token) ==
    LET auth == authenticateToken(bearer)
    IN
    /\ Start(p, [op |-> "logout", bearer |-> bearer, refresh_token |-> refresh_token])
    /\ UNCHANGED <<users, refresh_tokens, security_audit, now, nextUserId,
                   nextTokenId, secrets, client, poolUp, rateLimitStore,
                   issued, nticks>>
    /\ IF ~auth.next
       THEN /\ Respond(p, auth.res)
       ELSE IF refresh_token # NoToken
       THEN Await(p, "logout_revoke", [user |-> auth.user,
                                       tokenHash |-> sha256(refresh_token)])
       ELSE /\ Respond(p, Json(200, [message |-> "Logged out successfully"]))

LogoutRevoke(p) ==
    /\ pc[p] = "logout_revoke"
    /\ IF ~poolUp
       THEN /\ Respond(p, InternalError("Logout failed"))
            /\ UNCHANGED refresh_tokens
       ELSE /\ refresh_tokens' = revokeRefreshToken(loc[p].tokenHash)
            /\ Respond(p, Json(200, [message |-> "Logged out successfully"]))
    /\ UNCHANGED <<users, security_audit, now, nextUserId,
                   nextTokenId, secrets, client, poolUp, rateLimitStore, req, issued, nticks>>

LogoutAllAuth(p, bearer) ==
    LET auth == authenticateToken(bearer)
    IN
    /\ Start(p, [op |-> "logout-all", bearer |-> bearer])
    /\ UNCHANGED <<users, refresh_tokens, security_audit, now, nextUserId,
                   nextTokenId, secrets, client, poolUp, rateLimitStore,
                   issued, nticks>>
    /\ IF ~auth.next
       THEN /\ Respond(p, auth.res)
       ELSE Await(p, "logoutall_revoke", [user |-> auth.user])

LogoutAllRevoke(p) ==
    /\ pc[p] = "logoutall_revoke"
    /\ IF ~poolUp
       THEN /\ Respond(p, InternalError("Logout failed"))
            /\ UNCHANGED refresh_tokens
       ELSE /\ refresh_tokens' = revokeAllUserTokens(loc[p].user.id)
            /\ Respond(p, Json(200,
                    [message |-> "Logged out from all devices successfully"]))
    /\ UNCHANGED <<users, security_audit, now, nextUserId,
                   nextTokenId, secrets, client, poolUp, rateLimitStore, req, issued, nticks>>

----------------------------------------------------------------------------
(* The environment: the clock and the administration of the users table *)

Tick(d) ==
    /\ nticks < MaxTicks
    /\ nticks' = nticks + 1
    /\ now' = now + d
    /\ UNCHANGED <<users, refresh_tokens, security_audit, nextUserId,
                   nextTokenId, secrets, client, poolUp, rateLimitStore, pc, req,
                   loc, resp, issued>>

(* UPDATE users SET is_active = .. (administrative) *)
AdminSetActive(id, active) ==
    /\ \E u \in users : u.id = id /\ u.is_active # active
    /\ users' = {IF u.id = id THEN [u EXCEPT !.is_active = active] ELSE u : u \in users}
    /\ UNCHANGED <<refresh_tokens, security_audit, now, nextUserId,
                   nextTokenId, secrets, client, poolUp, rateLimitStore, pc, req,
                   loc, resp, issued, nticks>>

(* The database becomes unreachable, or reachable again *)
PoolFault(up) ==
    /\ poolUp # up
    /\ poolUp' = up
    /\ UNCHANGED <<users, refresh_tokens, security_audit, now, nextUserId,
                   nextTokenId, secrets, client, rateLimitStore, pc, req, loc, resp,
                   issued, nticks>>

----------------------------------------------------------------------------
(* The web client: the axios instance api (utils/api.ts), the auth slice
   (store/authSlice.ts) and the token manager.  A step runs from one network
   answer to the next request on the wire. *)

(* The calls of api that are followed *)
Requests == {"q1", "q2", "q3"}

(* tokenManager.accessToken = null, and a request without Authorization; the
   access tokens are numbered in the order the refresh endpoint delivers them *)
NoAccessToken == 0

(* The state of everything but the client *)
server == <<users, refresh_tokens, security_audit, now, nextUserId, nextTokenId,
            secrets, poolUp, rateLimitStore, pc, req, loc, resp, issued, nticks>>

(* initialState of the auth slice *)
initialState == [user |-> "null", token |-> NoAccessToken, isAuthenticated |-> FALSE,
                 error |-> "null"]

(* A call of api that was not made yet: its config, the number of times it
   went on the wire and the number of refresh thunks dispatched for it *)
NoCall == [cpc |-> "idle", retry |-> FALSE, Authorization |-> NoAccessToken,
           sends |-> 0, refreshes |-> 0, outcome |-> "none"]

(* reducer clearAuth *)
clearAuth(state) ==
    [state EXCEPT !.user = "null", !.token = NoAccessToken, !.isAuthenticated = FALSE,
                  !.error = "null"]

(* extraReducers: refreshToken.fulfilled and refreshToken.rejected *)
refreshTokenFulfilled(state, payload) ==
    [state EXCEPT !.token = payload.accessToken, !.user = payload.user,
                  !.isAuthenticated = TRUE]

refreshTokenRejected(state) ==
    [state EXCEPT !.user = "null", !.token = NoAccessToken, !.isAuthenticated = FALSE]

(* api.interceptors.request: the bearer token of the token manager, if any *)
requestInterceptor(token, config) ==
    IF token # NoAccessToken
    THEN [config EXCEPT !.Authorization = token]
    ELSE config

(* api(config): the request goes through the request interceptor onto the wire *)
ApiCall(q) ==
    /\ client.calls[q].cpc = "idle"
    /\ client' = [client EXCEPT !.calls[q] =
                     [requestInterceptor(client.accessToken, @)
                        EXCEPT !.cpc = "sent", !.sends = 1]]
    /\ UNCHANGED server

(* api.interceptors.response, response => response *)
ResponseFulfilled(q) ==
    /\ client.calls[q].cpc = "sent"
    /\ client' = [client EXCEPT !.calls[q].cpc = "done",
                                !.calls[q].outcome = "resolved"]
    /\ UNCHANGED server

(* The error interceptor that refreshes after every 401 *)
ResponseRejectedUnguarded(q, status) ==
    /\ client.calls[q].cpc = "sent"
    /\ IF status = 401
       THEN client' = [client EXCEPT !.calls[q].retry = TRUE,
                                    !.calls[q].cpc = "refreshing",
                                    !.calls[q].refreshes = @ + 1]
       ELSE client' = [client EXCEPT !.calls[q].cpc = "done",
                                    !.calls[q].outcome = "rejected"]
    /\ UNCHANGED server

(* api.interceptors.response, the error interceptor up to its await: a first
   401 sets _retry and dispatches refreshToken, whose POST /auth/refresh
   goes out; anything else is rejected *)
ResponseRejected(q, status) ==
    /\ client.calls[q].cpc = "sent"
    /\ IF status = 401 /\ ~client.calls[q].retry
       THEN client' = [client EXCEPT !.calls[q].retry = TRUE,
                                    !.calls[q].cpc = "refreshing",
                                    !.calls[q].refreshes = @ + 1]
       ELSE client' = [client EXCEPT !.calls[q].cpc = "done",
                                    !.calls[q].outcome = "rejected"]
    /\ UNCHANGED server

(* POST /auth/refresh is answered with a payload: the thunk is fulfilled, the
   reducer stores the payload, the interceptor gives the new token to the
   token manager and to the request and sends the request again *)
RefreshFulfilled(q) ==
    LET payload == [accessToken |-> client.minted + 1, user |-> "user"]
        newToken == payload.accessToken
        originalRequest == [client.calls[q] EXCEPT !.Authorization = newToken]
    IN
    /\ client.calls[q].cpc = "refreshing"
    /\ client.calls[q].sends < MaxSends
    /\ client' = [client EXCEPT
                     !.auth = refreshTokenFulfilled(@, payload),
                     !.minted = newToken,
                     !.accessToken = newToken,
                     !.calls[q] = [requestInterceptor(newToken, originalRequest)
                                     EXCEPT !.cpc = "sent", !.sends = @ + 1]]
    /\ UNCHANGED server

(* POST /auth/refresh fails: the thunk is rejected (rejectWithValue), the
   reducer clears the slice, the interceptor dispatches clearAuth, sends the
   browser to /login and rejects the request *)
RefreshRejected(q) ==
    /\ client.calls[q].cpc = "refreshing"
    /\ client' = [client EXCEPT !.auth = clearAuth(refreshTokenRejected(@)),
                                !.location = "/login",
                                !.calls[q].cpc = "done",
                                !.calls[q].outcome = "rejected"]
    /\ UNCHANGED server

----------------------------------------------------------------------------
(* The specification *)

SecretConfigs ==
    {[JWT_SECRET |-> "access-secret", JWT_REFRESH_SECRET |-> "refresh-secret"],
     [JWT_SECRET |-> "shared-secret", JWT_REFRESH_SECRET |-> "shared-secret"]}

Init ==
    /\ users = {}
    /\ refresh_tokens = {}
    /\ security_audit = {}
    /\ now = 1
    /\ nextUserId = 1
    /\ nextTokenId = 1
    /\ secrets \in SecretConfigs
    /\ client = [auth |-> initialState, accessToken |-> NoAccessToken,
                 location |-> "/", minted |-> 0,
                 calls |-> [q \in Requests |-> NoCall]]
    /\ poolUp = TRUE
    /\ rateLimitStore = [bucket \in Buckets |-> [ip \in IPs |-> NoHits]]
    /\ pc = [p \in Procs |-> "idle"]
    /\ req = [p \in Procs |-> NoReq]
    /\ loc = [p \in Procs |-> NoLoc]
    /\ resp = [p \in Procs |-> NoResp]
    /\ issued = {}
    /\ nticks = 0

(* One request slot: the requests come one after another, and the clock and
   the administrator act between any two steps of a handler *)
Slots == {"r1"}

(* One client session after another: every operation, two accounts *)
Next ==
    \/ \E p \in Slots, body \in SessionRegisterBodies : RegisterCheck(p, body)
    \/ \E p \in Slots : RegisterInsert(p)
    \/ \E p \in Slots : RegisterStore(p)
    \/ \E p \in Slots : RegisterAudit(p)
    \/ \E p \in Slots, body \in SessionLoginBodies : LoginLookup(p, body)
    \/ \E p \in Slots : LoginStore(p)
    \/ \E p \in Slots : LoginUpdate(p)
    \/ \E p \in Slots : LoginAudit(p)
    \/ \E p \in Slots, t \in Presentable \cup {NoToken} : RefreshCheck(p, t)
    \/ \E p \in Slots : RefreshUser(p)
    \/ \E p \in Slots : RefreshRevoke(p)
    \/ \E p \in Slots, b \in Presentable \cup {NoToken},
          t \in PresentableRefresh \cup {NoToken} : LogoutAuth(p, b, t)
    \/ \E p \in Slots : LogoutRevoke(p)
    \/ \E p \in Slots, b \in Presentable \cup {NoToken} : LogoutAllAuth(p, b)
    \/ \E p \in Slots : LogoutAllRevoke(p)
    \/ \E d \in {ACCESS_TTL, REFRESH_TTL} : Tick(d)
    \/ \E id \in 1..MaxUsers, active \in BOOLEAN : AdminSetActive(id, active)

Spec == Init /\ [][Next]_vars

(* Accounts: registration and login with every body, no session operation *)
NextAccounts ==
    \/ \E p \in Slots, body \in RegisterBodies : RegisterCheck(p, body)
    \/ \E p \in Slots : RegisterInsert(p)
    \/ \E p \in Slots : RegisterStore(p)
    \/ \E p \in Slots : RegisterAudit(p)
    \/ \E p \in Slots, body \in LoginBodies : LoginLookup(p, body)
    \/ \E p \in Slots : LoginStore(p)
    \/ \E p \in Slots : LoginUpdate(p)
    \/ \E p \in Slots : LoginAudit(p)
    \/ \E d \in {ACCESS_TTL, REFRESH_TTL} : Tick(d)
    \/ \E id \in 1..MaxUsers, active \in BOOLEAN : AdminSetActive(id, active)

SpecAccounts == Init /\ [][NextAccounts]_vars

(* Faults: every operation of one client while the database comes and goes
   between any two steps of a handler *)
NextFaults ==
    \/ \E p \in Slots, body \in FaultRegisterBodies : RegisterCheck(p, body)
    \/ \E p \in Slots : RegisterInsert(p)
    \/ \E p \in Slots : RegisterStore(p)
    \/ \E p \in Slots : RegisterAudit(p)
    \/ \E p \in Slots, body \in FaultLoginBodies : LoginLookup(p, body)
    \/ \E p \in Slots : LoginStore(p)
    \/ \E p \in Slots : LoginUpdate(p)
    \/ \E p \in Slots : LoginAudit(p)
    \/ \E p \in Slots, t \in Presentable \cup {NoToken} : RefreshCheck(p, t)
    \/ \E p \in Slots : RefreshUser(p)
    \/ \E p \in Slots : RefreshRevoke(p)
    \/ \E p \in Slots, b \in Presentable \cup {NoToken},
          t \in PresentableRefresh \cup {NoToken} : LogoutAuth(p, b, t)
    \/ \E p \in Slots : LogoutRevoke(p)
    \/ \E p \in Slots, b \in Presentable \cup {NoToken} : LogoutAllAuth(p, b)
    \/ \E p \in Slots : LogoutAllRevoke(p)
    \/ \E id \in 1..MaxUsers, active \in BOOLEAN : AdminSetActive(id, active)
    \/ \E up \in BOOLEAN : PoolFault(up)

SpecFaults == Init /\ [][NextFaults]_vars

(* Deactivation: one client registers, logs in and refreshes while the
   administrator deactivates and reactivates the account; nobody logs out,
   so the refresh handler is the only one that revokes a record *)
NextDeactivation ==
    \/ \E p \in Slots, body \in FaultRegisterBodies : RegisterCheck(p, body)
    \/ \E p \in Slots : RegisterInsert(p)
    \/ \E p \in Slots : RegisterStore(p)
    \/ \E p \in Slots : RegisterAudit(p)
    \/ \E p \in Slots, body \in FaultLoginBodies : LoginLookup(p, body)
    \/ \E p \in Slots : LoginStore(p)
    \/ \E p \in Slots : LoginUpdate(p)
    \/ \E p \in Slots : LoginAudit(p)
    \/ \E p \in Slots, t \in Presentable \cup {NoToken} : RefreshCheck(p, t)
    \/ \E p \in Slots : RefreshUser(p)
    \/ \E p \in Slots : RefreshRevoke(p)
    \/ \E d \in {ACCESS_TTL, REFRESH_TTL} : Tick(d)
    \/ \E id \in 1..MaxUsers, active \in BOOLEAN : AdminSetActive(id, active)

SpecDeactivation == Init /\ [][NextDeactivation]_vars

(* Rate limiting: the client at ip1 registers, logs in and refreshes, the
   client at ip2 logs in a few times; every request goes through its
   limiter, and the clock advances by whole windows *)
NextRateLimit ==
    \/ \E p \in Slots, body \in FaultRegisterBodies : RegisterLimited(p, "ip1", body)
    \/ \E p \in Slots : RegisterInsert(p)
    \/ \E p \in Slots : RegisterStore(p)
    \/ \E p \in Slots : RegisterAudit(p)
    \/ \E p \in Slots, body \in FaultLoginBodies : LoginLimited(p, "ip1", body)
    \/ \E p \in Slots :
          /\ rateLimitStore["auth"]["ip2"].totalHits < MaxOtherHits
          /\ LoginLimited(p, "ip2", [email |-> EmailB, password |-> WrongPw])
    \/ \E p \in Slots : LoginStore(p)
    \/ \E p \in Slots : LoginUpdate(p)
    \/ \E p \in Slots : LoginAudit(p)
    \/ \E p \in Slots, t \in (issued \cap PresentableRefresh) \cup {NoToken} :
          RefreshLimited(p, "ip1", t)
    \/ \E p \in Slots : RefreshUser(p)
    \/ Tick(WINDOW_S)

(* The limiters do not read the signing secrets: one configuration *)
InitRateLimit == Init /\ secrets.JWT_SECRET # secrets.JWT_REFRESH_SECRET

SpecRateLimit == InitRateLimit /\ [][NextRateLimit]_vars

(* Retry hint: two clients log in again and again while the clock advances
   by a third of a window or by a whole one *)
NextRetryAfter ==
    \/ \E p \in Slots, ip \in IPs, body \in FaultLoginBodies : LoginLimited(p, ip, body)
    \/ \E d \in {WINDOW_S \div 3, WINDOW_S} : Tick(d)

SpecRetryAfter == InitRateLimit /\ [][NextRetryAfter]_vars

(* Validation: register and login with every body, and refresh, while the
   database comes and goes *)
NextValidation ==
    \/ \E p \in Slots, body \in RegisterBodies : RegisterCheck(p, body)
    \/ \E p \in Slots : RegisterInsert(p)
    \/ \E p \in Slots : RegisterStore(p)
    \/ \E p \in Slots : RegisterAudit(p)
    \/ \E p \in Slots, body \in LoginBodies : LoginLookup(p, body)
    \/ \E p \in Slots : LoginStore(p)
    \/ \E p \in Slots : LoginUpdate(p)
    \/ \E p \in Slots : LoginAudit(p)
    \/ \E p \in Slots, t \in PresentableRefresh \cup {NoToken} : RefreshCheck(p, t)
    \/ \E p \in Slots : RefreshUser(p)
    \/ \E up \in BOOLEAN : PoolFault(up)

SpecValidation == Init /\ [][NextValidation]_vars

(* Race: two requests in flight at once; one client registers, then its
   Refresh and its Logout run side by side and interleave at their awaits *)
NextRace ==
    \/ \E p \in Procs, body \in FaultRegisterBodies : RegisterCheck(p, body)
    \/ \E p \in Procs : RegisterInsert(p)
    \/ \E p \in Procs : RegisterStore(p)
    \/ \E p \in Procs : RegisterAudit(p)
    \/ \E p \in Procs, t \in Presentable \cup {NoToken} : RefreshCheck(p, t)
    \/ \E p \in Procs : RefreshUser(p)
    \/ \E p \in Procs : RefreshRevoke(p)
    \/ \E p \in Procs, b \in Presentable \cup {NoToken},
          t \in PresentableRefresh \cup {NoToken} : LogoutAuth(p, b, t)
    \/ \E p \in Procs : LogoutRevoke(p)
    \/ \E id \in 1..MaxUsers, active \in BOOLEAN : AdminSetActive(id, active)

SpecRace == Init /\ [][NextRace]_vars

(* Conflicts: one Register after the other, also after MaxUsers users were
   registered *)
NextConflict ==
    \/ \E p \in Slots, body \in ConflictRegisterBodies : RegisterAgain(p, body)
    \/ \E p \in Slots : RegisterInsert(p)
    \/ \E p \in Slots : RegisterStore(p)
    \/ \E p \in Slots : RegisterAudit(p)

SpecConflict == Init /\ [][NextConflict]_vars

(* Client: the calls of api, each answered with a status by its server and
   its refresh answered or not *)
NextClient ==
    \/ \E q \in Requests : ApiCall(q)
    \/ \E q \in Requests : ResponseFulfilled(q)
    \/ \E q \in Requests, status \in {401, 403, 500} : ResponseRejected(q, status)
    \/ \E q \in Requests : RefreshFulfilled(q)
    \/ \E q \in Requests : RefreshRejected(q)

SpecClient == InitRateLimit /\ [][NextClient]_vars

(* Login: one client registers and logs in behind the limiter, with every
   kind of body, while the database comes and goes *)
NextLogin ==
    \/ \E p \in Slots, body \in FaultRegisterBodies : RegisterCheck(p, body)
    \/ \E p \in Slots : RegisterInsert(p)
    \/ \E p \in Slots : RegisterStore(p)
    \/ \E p \in Slots : RegisterAudit(p)
    \/ \E p \in Slots,
          body \in FaultLoginBodies \cup {[email |-> Missing, password |-> GoodPw]} :
            LoginLimited(p, "ip1", body)
    \/ \E p \in Slots : LoginStore(p)
    \/ \E p \in Slots : LoginUpdate(p)
    \/ \E p \in Slots : LoginAudit(p)
    \/ \E up \in BOOLEAN : PoolFault(up)
    \/ Tick(1)

SpecLogin == InitRateLimit /\ [][NextLogin]_vars


----------------------------------------------------------------------------
(* Properties.  A step of slot p is recognised from outside the handlers:   *)
(* by the slot's position and by what the step leaves in req and resp.      *)

(* Slot p receives a request in this step (req'[p] is the request) *)
Started(p) ==
    /\ pc[p] = "idle"
    /\ req'[p] # req[p] \/ resp'[p] # resp[p] \/ pc'[p] # "idle"

(* The handler of slot p sends its response in this step (resp'[p]) *)
Responded(p) ==
    /\ pc'[p] = "idle"
    /\ Started(p) \/ pc[p] # "idle"

(* The handler of slot p has answered its request *)
Answered(p, op) == pc[p] = "idle" /\ req[p].op = op /\ resp[p] # NoResp

HasAccessToken(r) == r # NoResp /\ "access_token" \in DOMAIN r.body

(* A ledger record that honours the digest h at time t *)
HonouredAt(h, t) ==
    \E r \in refresh_tokens : r.token_hash = h /\ ~r.is_revoked /\ r.expires_at > t

(* T is a refresh token of this server that has not expired at time t *)
GoodRefreshToken(T, t) ==
    /\ T.key = secrets.JWT_REFRESH_SECRET
    /\ "type" \in DOMAIN T.payload
    /\ T.payload.type = "refresh"
    /\ t < T.exp

ActiveUser(id) == \E u \in users : u.id = id /\ u.is_active
InactiveUser(id) == \E u \in users : u.id = id /\ ~u.is_active

(* C1: POST /auth/refresh gets past its ledger query only when, at that
   moment, a record with the digest of the presented token exists that is not
   revoked and not expired and the token verifies as a refresh token; it
   returns an access token only after that and only when its user query finds
   the subject user active; every other refresh response carries no access
   token. *)
C1_RefreshOnlyWhenHonoured ==
    [][\A p \in Procs :
        /\ (Started(p) /\ req'[p].op = "refresh" /\ pc'[p] # "idle")
              => /\ HonouredAt(sha256(req'[p].refresh_token), now)
                 /\ GoodRefreshToken(req'[p].refresh_token, now)
        /\ (Responded(p) /\ req'[p].op = "refresh" /\ HasAccessToken(resp'[p]))
              => /\ pc[p] = "ref_user"
                 /\ ActiveUser(req[p].refresh_token.payload.userId)
                 /\ resp'[p].status = 200
        /\ (Responded(p) /\ req'[p].op = "refresh" /\ resp'[p].status # 200)
              => /\ ~HasAccessToken(resp'[p])
                 /\ issued' = issued
      ]_vars

(* A refresh request was answered with a new access token *)
C1_Witness ==
    \E p \in Procs :
        /\ Answered(p, "refresh")
        /\ resp[p].status = 200
        /\ HasAccessToken(resp[p])
        /\ HonouredAt(sha256(req[p].refresh_token), now)


(* C2 (as claimed): once a record with the digest of an issued refresh token
   T has been revoked (Logout, LogoutAll), every Refresh(T) that starts
   afterwards is answered 401 invalid_token, though T still verifies and has
   not expired. *)
C2_RevokedTokenNeverRefreshes ==
    [][\A p \in Procs :
        (/\ Started(p)
         /\ req'[p].op = "refresh"
         /\ req'[p].refresh_token \in issued
         /\ GoodRefreshToken(req'[p].refresh_token, now)
         /\ \E r \in refresh_tokens :
               r.token_hash = sha256(req'[p].refresh_token) /\ r.is_revoked)
        => /\ pc'[p] = "idle"
           /\ resp'[p].status = 401
           /\ resp'[p].body.error = "invalid_token"
      ]_vars

(* A validly signed, unexpired access token: the claims are {userId} alone
   and the key is the access secret *)
GoodAccessToken(T, t) ==
    /\ T \in issued
    /\ T.key = secrets.JWT_SECRET
    /\ DOMAIN T.payload = {"userId"}
    /\ t < T.exp

(* C3: a validly signed, unexpired access token presented as refresh_token to
   POST /auth/refresh is rejected by the verification of the token itself,
   before and whatever the ledger holds: the answer is the 401 invalid_token
   of the verification, and no access token is issued. *)
C3_AccessTokenIsNoRefreshToken ==
    [][\A p \in Procs :
        (/\ Started(p)
         /\ req'[p].op = "refresh"
         /\ GoodAccessToken(req'[p].refresh_token, now))
        => /\ pc'[p] = "idle"
           /\ resp'[p] = [status |-> 401,
                          body |-> [error |-> "invalid_token",
                                    message |-> "Invalid or expired refresh token"]]
           /\ issued' = issued
           /\ refresh_tokens' = refresh_tokens
      ]_vars

(* An access token signed with the very key of the refresh tokens was
   presented and rejected *)
C3_Witness ==
    \E p \in Procs :
        /\ Answered(p, "refresh")
        /\ GoodAccessToken(req[p].refresh_token, now)
        /\ secrets.JWT_SECRET = secrets.JWT_REFRESH_SECRET
        /\ resp[p].status = 401

(* C4: while the user row read by the handler has is_active = false, Login
   with a complete body is answered 401 account_deactivated, Refresh does not
   answer with an access token and ends 401 invalid_user, and
   authenticateToken answers 401 (unauthorized when the token verifies) and
   does not run the route's handler; none of them issues a token. *)
C4_InactiveUserRejected ==
    [][\A p \in Procs :
        /\ (/\ Started(p)
            /\ req'[p].op = "login"
            /\ req'[p].email # Missing /\ req'[p].password # Missing
            /\ \E u \in users : u.email = toLowerCase(req'[p].email) /\ ~u.is_active)
           => /\ pc'[p] = "idle"
              /\ resp'[p].status = 401
              /\ resp'[p].body.error = "account_deactivated"
              /\ issued' = issued /\ refresh_tokens' = refresh_tokens
        /\ (/\ pc[p] = "ref_user"
            /\ pc'[p] # pc[p]
            /\ InactiveUser(req[p].refresh_token.payload.userId))
           => /\ pc'[p] = "ref_revoke"
              /\ ~HasAccessToken(resp'[p])
              /\ issued' = issued
        /\ (pc[p] = "ref_revoke" /\ pc'[p] # pc[p])
           => /\ resp'[p].status = 401
              /\ resp'[p].body.error = "invalid_user"
              /\ issued' = issued
        /\ (/\ Started(p)
            /\ req'[p].op \in {"logout", "logout-all"}
            /\ req'[p].bearer # NoToken
            /\ InactiveUser(req'[p].bearer.payload.userId))
           => /\ pc'[p] = "idle"
              /\ resp'[p].status = 401
              /\ (jwtVerify(req'[p].bearer, secrets.JWT_SECRET, now) = "ok"
                     => resp'[p].body.error = "unauthorized")
              /\ issued' = issued /\ refresh_tokens' = refresh_tokens
      ]_vars

(* A deactivated user's valid access token was refused by the middleware *)
C4_Witness ==
    \E p \in Procs :
        /\ Answered(p, "logout-all")
        /\ req[p].bearer \in issued
        /\ jwtVerify(req[p].bearer, secrets.JWT_SECRET, now) = "ok"
        /\ InactiveUser(req[p].bearer.payload.userId)
        /\ resp[p].body.error = "unauthorized"


(* Every password a client may type *)
Plaintexts == {GoodPw, WrongPw, ShortPw, NoLowerPw, NoUpperPw, NoDigitPw}

(* C5: no refresh_tokens row holds as token_hash a raw token that was ever
   sent to a client or is about to be sent, and no users row holds as
   password_hash a plaintext password. *)
C5_NoPlaintextAtRest ==
    /\ \A r \in refresh_tokens :
          /\ r.token_hash \notin issued
          /\ \A p \in Procs :
                "refreshToken" \in DOMAIN loc[p] => r.token_hash # loc[p].refreshToken
    /\ \A u \in users : u.password_hash \notin Plaintexts

(* The digest of a refresh token that a client holds is in the ledger *)
C5_Witness ==
    /\ \E t \in issued : \E r \in refresh_tokens : r.token_hash = sha256(t)
    /\ \E u \in users : bcryptCompare(GoodPw, u.password_hash)

(* The ledger rows with their revocation flag *)
Flags(ledger) == {<<r.id, r.is_revoked>> : r \in ledger}

(* C6: Logout behind a passed authenticateToken answers 200 whatever the
   body's refresh token is (none, unknown, valid, already revoked); its
   revocation leaves every record with the token's digest revoked and, when
   they were all revoked before, leaves the ledger as it was; and no step of
   the service turns a revoked record into a record that is not revoked. *)
C6_LogoutIdempotent ==
    [][\A p \in Procs :
        /\ (/\ Started(p)
            /\ req'[p].op = "logout"
            /\ req'[p].bearer # NoToken
            /\ jwtVerify(req'[p].bearer, secrets.JWT_SECRET, now) = "ok"
            /\ ActiveUser(req'[p].bearer.payload.userId))
           => \/ pc'[p] = "logout_revoke" /\ req'[p].refresh_token # NoToken
              \/ pc'[p] = "idle" /\ resp'[p].status = 200
                    /\ req'[p].refresh_token = NoToken
                    /\ refresh_tokens' = refresh_tokens
        /\ (pc[p] = "logout_revoke" /\ pc'[p] # pc[p])
           => /\ pc'[p] = "idle"
              /\ resp'[p].status = 200
              /\ \A r \in refresh_tokens' :
                    r.token_hash = sha256(req[p].refresh_token) => r.is_revoked
              /\ (\A r \in refresh_tokens :
                     r.token_hash = sha256(req[p].refresh_token) => r.is_revoked)
                 => refresh_tokens' = refresh_tokens
        /\ \A r \in refresh_tokens :
              r.is_revoked => <<r.id, TRUE>> \in Flags(refresh_tokens')
      ]_vars

(* Logout was answered 200 for a token whose record is revoked *)
C6_Witness ==
    \E p \in Procs :
        /\ Answered(p, "logout")
        /\ resp[p].status = 200
        /\ req[p].refresh_token \in issued
        /\ \E r \in refresh_tokens :
              r.token_hash = sha256(req[p].refresh_token) /\ r.is_revoked

(* C7: when LogoutAll of the authenticated user U runs its revocation, every
   record with user_id = U that exists then is revoked afterwards, so that no
   refresh token issued to U is honoured by the ledger, and the records of
   every other user are as they were. *)
C7_LogoutAllRevokesOwnRecords ==
    [][\A p \in Procs :
        (pc[p] = "logoutall_revoke" /\ pc'[p] # pc[p])
        => LET U == req[p].bearer.payload.userId
           IN /\ resp'[p].status = 200
              /\ \A r \in refresh_tokens :
                    r.user_id = U => [r EXCEPT !.is_revoked = TRUE] \in refresh_tokens'
              /\ \A r \in refresh_tokens' : r.user_id = U => r.is_revoked
              /\ {r \in refresh_tokens' : r.user_id # U}
                    = {r \in refresh_tokens : r.user_id # U}
              /\ \A t \in issued :
                    (GoodRefreshToken(t, now) /\ t.payload.userId = U)
                    => ~\E r \in refresh_tokens' :
                           r.token_hash = sha256(t) /\ ~r.is_revoked
      ]_vars

(* LogoutAll has revoked its user's record and another user's record is
   still honoured *)
C7_Witness ==
    \E p \in Procs :
        /\ Answered(p, "logout-all")
        /\ resp[p].status = 200
        /\ \E r \in refresh_tokens :
              r.user_id = req[p].bearer.payload.userId /\ r.is_revoked
        /\ \E r \in refresh_tokens :
              r.user_id # req[p].bearer.payload.userId /\ ~r.is_revoked


(* Equality of strings up to letter case, letter by letter *)
SameLetter(c, d) ==
    \/ c = d
    \/ {c, d} \in {{"a", "A"}, {"b", "B"}, {"l", "L"}, {"p", "P"}, {"w", "W"}}

EqualIgnoringCase(s, t) ==
    /\ Len(s) = Len(t)
    /\ \A i \in DOMAIN s : SameLetter(s[i], t[i])

Registered(email) == \E u \in users : EqualIgnoringCase(u.email, email)

(* The password does not match the one the registered user chose *)
WrongPasswordFor(email, password) ==
    \E u \in users : EqualIgnoringCase(u.email, email)
                       /\ ~bcryptCompare(password, u.password_hash)

(* C8 (as claimed): Login with an e-mail address that has no user row and
   Login with a registered user's address and a wrong password get the same
   response, status and body. *)
C8_FailedLoginsIdentical ==
    \A b1 \in LoginBodies, b2 \in LoginBodies :
        (/\ b1.email # Missing /\ b1.password # Missing
         /\ ~Registered(b1.email)
         /\ WrongPasswordFor(b2.email, b2.password))
        => loginLookup(b1.email, b1.password) = loginLookup(b2.email, b2.password)

(* C8 (amended): the same, for a registered user whose is_active is true;
   both responses are 401 invalid_credentials. *)
C8_FailedLoginsIdenticalForActiveUsers ==
    \A b1 \in LoginBodies, b2 \in LoginBodies :
        (/\ b1.email # Missing /\ b1.password # Missing
         /\ ~Registered(b1.email)
         /\ WrongPasswordFor(b2.email, b2.password)
         /\ \E u \in users : EqualIgnoringCase(u.email, b2.email) /\ u.is_active)
        => /\ loginLookup(b1.email, b1.password) = loginLookup(b2.email, b2.password)
           /\ ~loginLookup(b1.email, b1.password).next
           /\ loginLookup(b1.email, b1.password).res.status = 401
           /\ loginLookup(b1.email, b1.password).res.body.error = "invalid_credentials"

(* A login with an active user's address and a wrong password was refused
   while another address is not registered *)
C8_Witness ==
    \E p \in Procs :
        /\ Answered(p, "login")
        /\ WrongPasswordFor(req[p].email, req[p].password)
        /\ \E u \in users : EqualIgnoringCase(u.email, req[p].email) /\ u.is_active
        /\ resp[p] = loginLookup(req[p].email, req[p].password).res
        /\ \E b \in LoginBodies : b.email # Missing /\ ~Registered(b.email)

(* The register body passes the validation of the handler *)
ValidRegisterBody(r) ==
    /\ r.email # Missing /\ r.username # Missing /\ r.password # Missing
    /\ isEmail(r.email)
    /\ Len(r.username) >= 3 /\ Len(r.username) <= 30
    /\ usernameCharsOk(r.username)
    /\ validatePassword(r.password) = "null"

(* C9: no two user rows have e-mail addresses that are equal up to letter
   case, and a valid Register whose address equals an existing user's address
   up to letter case is answered 409 conflict and inserts no user, ledger or
   audit row. *)
C9_EmailUniqueIgnoringCase ==
    /\ [](\A u \in users, v \in users :
             EqualIgnoringCase(u.email, v.email) => u = v)
    /\ [][\A p \in Procs :
            (/\ Started(p)
             /\ req'[p].op = "register"
             /\ ValidRegisterBody(req'[p])
             /\ Registered(req'[p].email))
            => /\ pc'[p] = "idle"
               /\ resp'[p].status = 409
               /\ resp'[p].body.error = "conflict"
               /\ users' = users
               /\ refresh_tokens' = refresh_tokens
               /\ security_audit' = security_audit
         ]_vars

(* A Register with the upper-case spelling of a registered address was
   answered 409 *)
C9_Witness ==
    \E p \in Procs :
        /\ Answered(p, "register")
        /\ req[p].email = EmailUp
        /\ \E u \in users : u.email = EmailLo
        /\ resp[p].status = 409

(* C10 (as claimed): a valid Register whose user name equals an existing
   user's user name, exactly or up to letter case, is answered 409 conflict
   and creates no user row. *)
C10_UsernameConflict ==
    [][\A p \in Procs :
        /\ (/\ Started(p)
            /\ req'[p].op = "register"
            /\ ValidRegisterBody(req'[p])
            /\ \E u \in users : EqualIgnoringCase(u.username, req'[p].username))
           => /\ pc'[p] = "idle"
              /\ resp'[p].status = 409
              /\ resp'[p].body.error = "conflict"
        /\ (/\ pc[p] = "reg_insert"
            /\ pc'[p] # pc[p]
            /\ \E u \in users : EqualIgnoringCase(u.username, req[p].username))
           => users' = users
      ]_vars

(* The response carries the token pair of Register and Login *)
HasTokens(r) == r # NoResp /\ "tokens" \in DOMAIN r.body

(* C11: every refresh token that Register or Login returns has, already
   before the response is sent, a ledger record with its digest; and when the
   step that inserts the record inserts nothing, the request is answered 500
   internal_error with no access and no refresh token. *)
C11_ReturnedTokenHasRecord ==
    /\ [](\A t \in issued :
             payloadType(t.payload) = "refresh"
             => \E r \in refresh_tokens :
                   r.token_hash = sha256(t) /\ r.user_id = t.payload.userId)
    /\ [][\A p \in Procs :
            /\ (Responded(p) /\ req'[p].op \in {"register", "login"}
                    /\ HasTokens(resp'[p]))
               => \E r \in refresh_tokens :
                     r.token_hash = sha256(resp'[p].body.tokens.refresh_token)
            /\ (/\ pc[p] \in {"reg_store", "login_store"}
                /\ pc'[p] # pc[p]
                /\ refresh_tokens' = refresh_tokens)
               => /\ pc'[p] = "idle"
                  /\ resp'[p].status = 500
                  /\ resp'[p].body.error = "internal_error"
                  /\ ~HasTokens(resp'[p])
                  /\ ~HasAccessToken(resp'[p])
                  /\ issued' = issued
         ]_vars

(* A Register was answered 500 after its user row was written and before any
   ledger record: the insert of the record failed *)
C11_Witness ==
    \E p \in Procs :
        /\ Answered(p, "register")
        /\ resp[p].status = 500
        /\ \E u \in users : u.email = toLowerCase(req[p].email)
        /\ refresh_tokens = {}
        /\ issued = {}
(* C12 (as claimed): two issuances to one user give two refresh tokens with
   two independent ledger records, so the revocation step of a Logout
   revokes the record of one issuance at most: no second record that was
   honouring a token before the step is revoked by it. *)
C12_IssuancesIndependent ==
    [][\A p \in Procs :
        (pc[p] = "logout_revoke" /\ pc'[p] # pc[p])
        => Cardinality({r \in refresh_tokens :
                           ~r.is_revoked /\ <<r.id, TRUE>> \in Flags(refresh_tokens')})
              <= 1
      ]_vars
(* Some record holds the digest of T, and every record that does is revoked *)
RevocationCommitted(T) ==
    /\ \E r \in refresh_tokens : r.token_hash = sha256(T)
    /\ \A r \in refresh_tokens : r.token_hash = sha256(T) => r.is_revoked

(* C13 (as claimed): in every interleaving of a Refresh(T) with a Logout(T),
   no Refresh(T) sends a response with a new access token once the
   revocation of T's record has been committed. *)
C13_NoRefreshAfterRevocation ==
    [][\A p \in Procs :
        (/\ Responded(p)
         /\ req'[p].op = "refresh"
         /\ RevocationCommitted(req'[p].refresh_token))
        => /\ ~HasAccessToken(resp'[p])
           /\ issued' = issued
      ]_vars

(* C13 (amended): a Refresh(T) whose ledger query runs after the revocation
   of T's record has been committed observes the revoked record and is
   answered 401 invalid_token by the ledger check, with no access token. *)
C13_RevocationBeforeLedgerQueryWins ==
    [][\A p \in Procs :
        (/\ Started(p)
         /\ req'[p].op = "refresh"
         /\ req'[p].refresh_token \in issued
         /\ GoodRefreshToken(req'[p].refresh_token, now)
         /\ RevocationCommitted(req'[p].refresh_token))
        => /\ pc'[p] = "idle"
           /\ resp'[p] = [status |-> 401,
                          body |-> [error |-> "invalid_token",
                                    message |-> "Refresh token is invalid or expired"]]
           /\ issued' = issued
      ]_vars

(* One request has logged T out and the other request's Refresh(T) was
   refused by the ledger check *)
C13_Witness ==
    \E p \in Procs, q \in Procs :
        /\ p # q
        /\ Answered(p, "refresh")
        /\ Answered(q, "logout")
        /\ resp[q].status = 200
        /\ req[q].refresh_token = req[p].refresh_token
        /\ RevocationCommitted(req[p].refresh_token)
        /\ resp[p].status = 401
        /\ resp[p].body.message = "Refresh token is invalid or expired"
(* C14 (as claimed): when Refresh gets a token that verifies as a refresh
   token and no ledger record honours its digest (absent, revoked or
   expired), the handler leaves every ledger record of the token's subject
   user revoked, and answers 401 invalid_token. *)
C14_RejectedTokenRevokesAll ==
    [][\A p \in Procs :
        (/\ Started(p)
         /\ req'[p].op = "refresh"
         /\ req'[p].refresh_token # NoToken
         /\ GoodRefreshToken(req'[p].refresh_token, now)
         /\ ~HonouredAt(sha256(req'[p].refresh_token), now))
        => /\ pc'[p] = "idle"
           /\ resp'[p].status = 401
           /\ resp'[p].body.error = "invalid_token"
           /\ \A r \in refresh_tokens' :
                 r.user_id = req'[p].refresh_token.payload.userId => r.is_revoked
      ]_vars
(* C15 (as claimed): a Refresh whose token passed the ledger query and whose
   subject user is inactive is answered 401 invalid_user and revokes the
   records with the token's digest and no other record; and, where only the
   refresh handler revokes, every later Refresh of a token with a revoked
   record is answered 401 invalid_token, reactivated user or not. *)
C15_InvalidUserRevokesToken ==
    [][\A p \in Procs :
        /\ (/\ pc[p] = "ref_user"
            /\ pc'[p] # pc[p]
            /\ ~ActiveUser(req[p].refresh_token.payload.userId))
           => /\ pc'[p] = "ref_revoke"
              /\ refresh_tokens' = refresh_tokens
              /\ issued' = issued
        /\ (pc[p] = "ref_revoke" /\ pc'[p] # pc[p])
           => /\ pc'[p] = "idle"
              /\ resp'[p].status = 401
              /\ resp'[p].body.error = "invalid_user"
              /\ refresh_tokens' =
                    {IF r.token_hash = sha256(req[p].refresh_token)
                     THEN [r EXCEPT !.is_revoked = TRUE] ELSE r : r \in refresh_tokens}
        /\ (/\ Started(p)
            /\ req'[p].op = "refresh"
            /\ req'[p].refresh_token # NoToken
            /\ \E r \in refresh_tokens :
                  r.token_hash = sha256(req'[p].refresh_token) /\ r.is_revoked)
           => /\ pc'[p] = "idle"
              /\ resp'[p].status = 401
              /\ resp'[p].body.error = "invalid_token"
      ]_vars
(* C16: a Refresh that is answered 200 changes no ledger record in any of
   its steps and returns nothing but a new access token for the token's
   subject with expires_in = 900; so a refresh token that verifies, has an
   honouring record and an active subject passes the ledger query and is
   answered 200 again, however often it was used before. *)
C16_RefreshLeavesLedgerUnchanged ==
    [][\A p \in Procs :
        /\ (Started(p) /\ req'[p].op = "refresh")
           => refresh_tokens' = refresh_tokens
        /\ (Responded(p) /\ req'[p].op = "refresh" /\ resp'[p].status = 200)
           => /\ refresh_tokens' = refresh_tokens
              /\ DOMAIN resp'[p].body = {"access_token", "expires_in"}
              /\ resp'[p].body.expires_in = 900
              /\ resp'[p].body.access_token =
                    [payload |-> [userId |-> req[p].refresh_token.payload.userId],
                     key |-> secrets.JWT_SECRET, iat |-> now, exp |-> now + 900]
              /\ issued' = issued \cup {resp'[p].body.access_token}
        /\ (/\ Started(p)
            /\ req'[p].op = "refresh"
            /\ req'[p].refresh_token # NoToken
            /\ GoodRefreshToken(req'[p].refresh_token, now)
            /\ HonouredAt(sha256(req'[p].refresh_token), now))
           => pc'[p] = "ref_user"
        /\ (/\ pc[p] = "ref_user"
            /\ pc'[p] # pc[p]
            /\ ActiveUser(req[p].refresh_token.payload.userId))
           => /\ pc'[p] = "idle"
              /\ resp'[p].status = 200
      ]_vars

(* A refresh token issued before the clock advanced was answered 200, and
   its record honours it still *)
C16_Witness ==
    \E p \in Procs :
        /\ Answered(p, "refresh")
        /\ resp[p].status = 200
        /\ resp[p].body.access_token.iat > req[p].refresh_token.iat
        /\ HonouredAt(sha256(req[p].refresh_token), now)
        /\ ActiveUser(req[p].refresh_token.payload.userId)
(* What is wrong with the bearer token B of a request, told from the token
   and the users table *)
BadlySigned(B) == B # NoToken /\ B.key # secrets.JWT_SECRET
ExpiredAccess(B) == B # NoToken /\ B.key = secrets.JWT_SECRET /\ now >= B.exp
NoActiveUser(B) ==
    /\ B # NoToken /\ B.key = secrets.JWT_SECRET /\ now < B.exp
    /\ ~ActiveUser(B.payload.userId)

(* C17: a Logout or LogoutAll whose access token is missing, badly signed,
   expired, or names a missing or inactive user is answered 401 by
   authenticateToken (unauthorized, invalid_token, token_expired and
   unauthorized in turn) in the step that receives it: the handler does not
   run and the ledger is as it was. *)
C17_UnauthenticatedLogoutRejected ==
    [][\A p \in Procs :
        (Started(p) /\ req'[p].op \in {"logout", "logout-all"})
        => LET B == req'[p].bearer
               rejected == /\ pc'[p] = "idle"
                           /\ resp'[p].status = 401
                           /\ refresh_tokens' = refresh_tokens
           IN /\ B = NoToken
                    => rejected /\ resp'[p].body.error = "unauthorized"
              /\ BadlySigned(B)
                    => rejected /\ resp'[p].body.error = "invalid_token"
              /\ ExpiredAccess(B)
                    => rejected /\ resp'[p].body.error = "token_expired"
              /\ NoActiveUser(B)
                    => rejected /\ resp'[p].body.error = "unauthorized"
      ]_vars

(* A Logout with an expired access token was refused and the record of the
   refresh token in its body is not revoked *)
C17_Witness ==
    \E p \in Procs :
        /\ Answered(p, "logout")
        /\ req[p].bearer \in issued
        /\ ExpiredAccess(req[p].bearer)
        /\ resp[p].status = 401
        /\ resp[p].body.error = "token_expired"
        /\ HonouredAt(sha256(req[p].refresh_token), now)
(* The bucket a route is counted in and the number of requests it admits in
   one window of 900 seconds *)
BucketOf(op) == IF op \in {"register", "login"} THEN "auth" ELSE "refresh"
Limit(bucket) == IF bucket = "auth" THEN 10 ELSE 30

(* Slot p receives a request in this step; a request that repeats the last
   one and gets the same answer shows in the limiter's count *)
Received(p) == pc[p] = "idle" /\ (Started(p) \/ rateLimitStore' # rateLimitStore)

(* C18: every register, login and refresh request is counted for one client
   IP in its bucket, register and login in the same one, and leaves every
   other count as it was; a window of 900 seconds begins with the client's
   first request after the last window ended; the requests that are number
   1..10 (refresh: 1..30) in their window reach the handler, and every later
   one is answered 429 rate_limited with a retry_after and changes nothing
   else. *)
C18_RateLimitPerClient ==
    [][\A p \in Procs :
        (Received(p) /\ req'[p].op \in {"register", "login", "refresh"})
        => \E ip \in IPs :
              LET b == BucketOf(req'[p].op)
                  before == rateLimitStore[b][ip]
                  after == rateLimitStore'[b][ip]
                  inWindow == before.totalHits > 0 /\ now < before.resetTime
                  n == IF inWindow THEN before.totalHits + 1 ELSE 1
              IN /\ after.totalHits = n
                 /\ after.resetTime = IF inWindow THEN before.resetTime ELSE now + 900
                 /\ \A b2 \in Buckets, ip2 \in IPs :
                       <<b2, ip2>> # <<b, ip>>
                       => rateLimitStore'[b2][ip2] = rateLimitStore[b2][ip2]
                 /\ n <= Limit(b) => resp'[p].status # 429
                 /\ n > Limit(b)
                       => /\ pc'[p] = "idle"
                          /\ resp'[p].status = 429
                          /\ resp'[p].body.error = "rate_limited"
                          /\ "retry_after" \in DOMAIN resp'[p].body
                          /\ users' = users
                          /\ refresh_tokens' = refresh_tokens
                          /\ security_audit' = security_audit
                          /\ issued' = issued
      ]_vars

(* The eleventh login of the client at ip1 in a window was answered 429 while
   its refresh requests and the logins of the client at ip2 were admitted,
   and after a window that had ended *)
C18_Witness ==
    \E p \in Procs :
        /\ Answered(p, "login")
        /\ resp[p].status = 429
        /\ rateLimitStore["auth"]["ip1"].totalHits = 11
        /\ rateLimitStore["auth"]["ip1"].resetTime = 1 + 900 + 900
        /\ rateLimitStore["refresh"]["ip1"].totalHits \in 1..30
        /\ rateLimitStore["auth"]["ip2"].totalHits \in 1..10
        /\ users # {}
(* C19 (as claimed): the retry_after of a 429 response is the number of
   seconds from the request to the end of the window it was counted in. *)
C19_RetryAfterIsTimeToReset ==
    [][\A p \in Procs :
        (Received(p) /\ pc'[p] = "idle" /\ resp'[p].status = 429)
        => \E ip \in IPs :
              LET b == BucketOf(req'[p].op)
              IN /\ rateLimitStore'[b][ip] # rateLimitStore[b][ip]
                 /\ resp'[p].body.retry_after = rateLimitStore'[b][ip].resetTime - now
      ]_vars
(* The rules of the three fields of a register body, letter by letter *)
BadUsername(u) ==
    \/ Len(u) < 3 \/ Len(u) > 30
    \/ \E i \in DOMAIN u :
          u[i] \notin {"a", "b", "c", "d", "i", "l", "o", "p", "r", "s", "w", "x",
                       "A", "B", "L", "P", "W", "0", "1", "_"}
BadPassword(w) ==
    \/ Len(w) < 8
    \/ ~\E i \in DOMAIN w : w[i] \in {"a", "d", "o", "r", "s", "w"}
    \/ ~\E i \in DOMAIN w : w[i] \in {"A", "L", "P", "S", "W"}
    \/ ~\E i \in DOMAIN w : w[i] \in {"0", "1"}
BadEmail(e) == e \notin {EmailLo, EmailUp, EmailB}

InvalidRegister(r) ==
    \/ r.email = Missing \/ r.username = Missing \/ r.password = Missing
    \/ BadEmail(r.email)
    \/ BadUsername(r.username)
    \/ BadPassword(r.password)

(* C20: a Register whose body breaks a rule of a field, a Login without
   e-mail address or password and a Refresh without refresh_token are
   answered 400 validation_error in the step that receives them, and users,
   refresh_tokens and security_audit are as they were; the answer is the
   same when no query can reach the database, so no table was read. *)
C20_ValidationBeforeStore ==
    [][\A p \in Procs :
        (/\ Started(p)
         /\ \/ req'[p].op = "register" /\ InvalidRegister(req'[p])
            \/ req'[p].op = "login"
                  /\ (req'[p].email = Missing \/ req'[p].password = Missing)
            \/ req'[p].op = "refresh" /\ req'[p].refresh_token = NoToken)
        => /\ pc'[p] = "idle"
           /\ resp'[p].status = 400
           /\ resp'[p].body.error = "validation_error"
           /\ users' = users
           /\ refresh_tokens' = refresh_tokens
           /\ security_audit' = security_audit
      ]_vars

(* A Register with a password without a digit was answered 400 while the
   database could not be reached *)
C20_Witness ==
    \E p \in Procs :
        /\ Answered(p, "register")
        /\ req[p].password = NoDigitPw
        /\ ~poolUp
        /\ resp[p].status = 400
        /\ resp[p].body.error = "validation_error"
(* A user row without any ledger record: a user without a session *)
WithoutSession(u) == ~\E r \in refresh_tokens : r.user_id = u.id

(* C21: a Register that fails at the insert of its ledger record is answered
   500 internal_error and leaves its user row; while that user has no
   session and the queries succeed, a Login with the same address and the
   registered password passes the password check, inserts a ledger record and
   is answered 200 with the tokens, and a valid Register with the same
   address is answered 409 conflict. *)
C21_FailedRegisterIsRecoverable ==
    [][\A p \in Procs :
        /\ (pc[p] = "reg_store" /\ pc'[p] = "idle")
           => /\ resp'[p].status = 500
              /\ resp'[p].body.error = "internal_error"
              /\ users' = users
              /\ \E u \in users' :
                    EqualIgnoringCase(u.email, req[p].email) /\ u.is_active
        /\ \A u \in users :
              (WithoutSession(u) /\ u.is_active /\ poolUp /\ Started(p)
                  /\ req'[p].op \in {"login", "register"}
                  /\ EqualIgnoringCase(u.email, req'[p].email))
              => /\ (req'[p].op = "login" /\ req'[p].password = GoodPw)
                       => pc'[p] = "login_store"
                 /\ (req'[p].op = "register" /\ ~InvalidRegister(req'[p]))
                       => /\ pc'[p] = "idle"
                          /\ resp'[p].status = 409
                          /\ resp'[p].body.error = "conflict"
                          /\ users' = users
        /\ (pc[p] = "login_store" /\ pc'[p] # pc[p] /\ poolUp)
           => /\ pc'[p] = "login_update"
              /\ \E r \in refresh_tokens' \ refresh_tokens :
                    /\ \E u \in users : u.id = r.user_id
                          /\ EqualIgnoringCase(u.email, req[p].email)
                    /\ ~r.is_revoked
        /\ (pc[p] = "login_update" /\ pc'[p] # pc[p] /\ poolUp)
           => pc'[p] = "login_audit"
        /\ (pc[p] = "login_audit" /\ pc'[p] # pc[p])
           => /\ resp'[p].status = 200
              /\ HasTokens(resp'[p])
              /\ \E r \in refresh_tokens' :
                    r.token_hash = sha256(resp'[p].body.tokens.refresh_token)
      ]_vars

(* A Login was answered 200 with the only ledger record there is, for a user
   whose Register never stored a record *)
C21_Witness ==
    \E p \in Procs :
        /\ Answered(p, "login")
        /\ resp[p].status = 200
        /\ nextTokenId = 2
        /\ \E r \in refresh_tokens :
              /\ r.token_hash = sha256(resp[p].body.tokens.refresh_token)
              /\ r.user_id = resp[p].body.user.id
        /\ \A a \in security_audit : a.event_type # "registration"
(* C22: when Register or Login has passed every other step and only the
   insert of the security_audit entry fails, the response is still 201 (200
   for Login) with both tokens, and the ledger record of the returned refresh
   token is kept. *)
C22_AuditFailureIsNotFatal ==
    [][\A p \in Procs :
        (pc[p] \in {"reg_audit", "login_audit"} /\ pc'[p] # pc[p] /\ ~poolUp)
        => /\ pc'[p] = "idle"
           /\ resp'[p].status = IF pc[p] = "reg_audit" THEN 201 ELSE 200
           /\ HasTokens(resp'[p])
           /\ refresh_tokens' = refresh_tokens
           /\ security_audit' = security_audit
           /\ \E r \in refresh_tokens' :
                 /\ r.token_hash = sha256(resp'[p].body.tokens.refresh_token)
                 /\ r.user_id = resp'[p].body.user.id
                 /\ ~r.is_revoked
      ]_vars

(* A Login was answered 200 although no login entry was ever written *)
C22_Witness ==
    \E p \in Procs :
        /\ Answered(p, "login")
        /\ resp[p].status = 200
        /\ HasTokens(resp[p])
        /\ \A a \in security_audit : a.event_type # "login"
(* No capital letter in a string *)
IsLowerCase(str) == \A i \in 1..Len(str) : str[i] \notin UpperChars

(* The row of the user a Register request is creating *)
NewUserOf(p) == {u \in users' : EqualIgnoringCase(u.email, req[p].email)}

(* The steps of Register before the audit entry: the existing-user query
   writes nothing, the insert adds one users row and the ledger step adds one
   record of that user *)
RegisterWritesBeforeAudit(p) ==
    /\ (pc[p] = "idle" /\ pc'[p] = "reg_insert")
       => UNCHANGED <<users, refresh_tokens, security_audit>>
    /\ (pc[p] = "reg_insert" /\ pc'[p] = "reg_store")
       => /\ UNCHANGED <<refresh_tokens, security_audit>>
          /\ \E u \in users' \ users :
                /\ users' = users \cup {u}
                /\ EqualIgnoringCase(u.email, req[p].email)
                /\ IsLowerCase(u.email)
                /\ u.currency_balance = 0
                /\ u.is_active
    /\ (pc[p] = "reg_store" /\ pc'[p] = "reg_audit")
       => /\ UNCHANGED <<users, security_audit>>
          /\ \E r \in refresh_tokens' \ refresh_tokens :
                /\ refresh_tokens' = refresh_tokens \cup {r}
                /\ \E u \in NewUserOf(p) : r.user_id = u.id
                /\ ~r.is_revoked

(* The audit entry of a Register *)
RegistrationEntryAdded(p) ==
    \E a \in security_audit' \ security_audit :
        /\ security_audit' = security_audit \cup {a}
        /\ a.event_type = "registration"
        /\ \E u \in NewUserOf(p) : a.user_id = u.id

(* C23 as claimed: a Register answered 201 has added exactly one users row
   (address in lower case, balance 0, active), exactly one non-revoked ledger
   record of that user and exactly one registration audit entry of that user,
   and nothing else. *)
C23_RegisterWritesExactlyThreeRows ==
    [][\A p \in Procs :
        /\ RegisterWritesBeforeAudit(p)
        /\ (pc[p] = "reg_audit" /\ pc'[p] # pc[p])
           => /\ resp'[p].status = 201
              /\ UNCHANGED <<users, refresh_tokens>>
              /\ RegistrationEntryAdded(p)
      ]_vars

(* C23 amended: as above, but the registration audit entry is there exactly
   when its insert succeeded; when that insert fails the 201 response is sent
   with no audit entry written. *)
C23_RegisterWritesAuditedWhenPossible ==
    [][\A p \in Procs :
        /\ RegisterWritesBeforeAudit(p)
        /\ (pc[p] = "reg_audit" /\ pc'[p] # pc[p])
           => /\ resp'[p].status = 201
              /\ UNCHANGED <<users, refresh_tokens>>
              /\ IF poolUp THEN RegistrationEntryAdded(p)
                           ELSE UNCHANGED security_audit
      ]_vars

(* A Register with capital letters in its address was answered 201 and no
   registration entry was written *)
C23_Witness ==
    \E p \in Procs :
        /\ Answered(p, "register")
        /\ resp[p].status = 201
        /\ ~IsLowerCase(req[p].email)
        /\ \E u \in users : u.id = resp[p].body.user.id /\ IsLowerCase(u.email)
        /\ \A a \in security_audit : a.event_type # "registration"
(* C24: the details of a 409 conflict answer of Register name the email
   exactly when some existing user has the case-folded email, and the
   username exactly when some existing user has the username, also when the
   two collisions are with two different users. *)
C24_ConflictReportsEveryCollision ==
    [][\A p \in Procs :
        (Started(p) /\ pc'[p] = "idle" /\ req'[p].op = "register"
            /\ resp'[p].status = 409)
        => LET details == DOMAIN resp'[p].body.details
           IN  /\ "email" \in details
                     <=> \E u \in users : EqualIgnoringCase(u.email, req'[p].email)
               /\ "username" \in details
                     <=> \E u \in users : u.username = req'[p].username
      ]_vars
(* The user a Login request names *)
LoginUserOf(p) == {u \in users : EqualIgnoringCase(u.email, req[p].email)}

(* The steps of Login up to its ledger record: the request is counted and the
   lookup and the password check write nothing; the ledger step adds one
   record of the user, or answers 500 and adds nothing *)
LoginWritesUpToLedger(p) ==
    /\ (Received(p) /\ req'[p].op = "login")
       => /\ UNCHANGED <<users, refresh_tokens, security_audit>>
          /\ pc'[p] = "idle" => resp'[p].status \in {400, 401, 429, 500}
    /\ (pc[p] = "login_store" /\ pc'[p] = "idle")
       => /\ resp'[p].status = 500
          /\ UNCHANGED <<users, refresh_tokens, security_audit>>
    /\ (pc[p] = "login_store" /\ pc'[p] = "login_update")
       => /\ UNCHANGED <<users, security_audit>>
          /\ \E r \in refresh_tokens' \ refresh_tokens :
                /\ refresh_tokens' = refresh_tokens \cup {r}
                /\ \E u \in LoginUserOf(p) : r.user_id = u.id
                /\ ~r.is_revoked

(* The update of last_login *)
LastLoginSet(p) ==
    /\ UNCHANGED <<refresh_tokens, security_audit>>
    /\ \E u \in LoginUserOf(p) :
          users' = (users \ {u}) \cup {[u EXCEPT !.last_login = now]}

(* The audit entry of a Login *)
LoginEntryAdded(p) ==
    \E a \in security_audit' \ security_audit :
        /\ security_audit' = security_audit \cup {a}
        /\ a.event_type = "login"
        /\ \E u \in LoginUserOf(p) : a.user_id = u.id

(* C25 as claimed: a Login answered 200 has inserted exactly one ledger
   record of the user, set last_login and appended one login audit entry; a
   Login answered with an error status (400, 401, 429, 500) is answered before
   it has written anything, so that refresh_tokens and security_audit are as
   they were. *)
C25_LoginWritesAllOrNothing ==
    [][\A p \in Procs :
        /\ LoginWritesUpToLedger(p)
        /\ (pc[p] = "login_update" /\ pc'[p] # pc[p])
           => /\ pc'[p] = "login_audit"
              /\ LastLoginSet(p)
        /\ (pc[p] = "login_audit" /\ pc'[p] # pc[p])
           => /\ resp'[p].status = 200
              /\ UNCHANGED <<users, refresh_tokens>>
              /\ LoginEntryAdded(p)
      ]_vars

(* C25 amended: the login audit entry is there exactly when its insert
   succeeded, and a Login answered 500 at the update of last_login keeps the
   ledger record it had inserted; every other error answer is sent before
   anything was written. *)
C25_LoginWritesStepwise ==
    [][\A p \in Procs :
        /\ LoginWritesUpToLedger(p)
        /\ (pc[p] = "login_update" /\ pc'[p] = "idle")
           => /\ resp'[p].status = 500
              /\ UNCHANGED <<users, refresh_tokens, security_audit>>
              /\ \E r \in refresh_tokens :
                    /\ r.token_hash = sha256(loc[p].refreshToken)
                    /\ \E u \in LoginUserOf(p) : r.user_id = u.id
        /\ (pc[p] = "login_update" /\ pc'[p] = "login_audit")
           => LastLoginSet(p)
        /\ (pc[p] = "login_audit" /\ pc'[p] # pc[p])
           => /\ resp'[p].status = 200
              /\ UNCHANGED <<users, refresh_tokens>>
              /\ IF poolUp THEN LoginEntryAdded(p)
                           ELSE UNCHANGED security_audit
      ]_vars

(* A Login was answered 500 after its ledger record was inserted: the ledger
   holds two records and only one of them was ever returned *)
C25_Witness ==
    \E p \in Procs :
        /\ Answered(p, "login")
        /\ resp[p].status = 500
        /\ Cardinality(refresh_tokens) = 2
        /\ \A u \in users : u.last_login = -1
(* C26 as claimed: the revocation of a Logout by the authenticated user A
   leaves every ledger record of every other user as it was, whatever refresh
   token the body carries. *)
C26_LogoutRevokesOwnRecordsOnly ==
    [][\A p \in Procs :
        (pc[p] = "logout_revoke" /\ pc'[p] # pc[p])
        => LET A == req[p].bearer.payload.userId
           IN  {r \in refresh_tokens' : r.user_id # A}
                    = {r \in refresh_tokens : r.user_id # A}
      ]_vars

(* C26 amended: the revocation of a Logout revokes the ledger records that
   hold the digest of the body's refresh token, whoever owns them, and leaves
   every other record as it was. *)
C26_LogoutRevokesByDigestOnly ==
    [][\A p \in Procs :
        (pc[p] = "logout_revoke" /\ pc'[p] # pc[p])
        => LET h == sha256(req[p].refresh_token)
           IN  /\ resp'[p].status = 200
               /\ {r \in refresh_tokens' : r.token_hash # h}
                     = {r \in refresh_tokens : r.token_hash # h}
               /\ \A r \in refresh_tokens :
                     r.token_hash = h => [r EXCEPT !.is_revoked = TRUE] \in refresh_tokens'
               /\ \A r \in refresh_tokens' : r.token_hash = h => r.is_revoked
               /\ Cardinality(refresh_tokens') = Cardinality(refresh_tokens)
      ]_vars

(* A Logout of one user with the refresh token of another user was answered
   200 and the other user's record is revoked *)
C26_Witness ==
    \E p \in Procs :
        /\ Answered(p, "logout")
        /\ resp[p].status = 200
        /\ req[p].refresh_token \in issued
        /\ req[p].bearer.payload.userId # req[p].refresh_token.payload.userId
        /\ \E r \in refresh_tokens :
              /\ r.token_hash = sha256(req[p].refresh_token)
              /\ r.user_id = req[p].refresh_token.payload.userId
              /\ r.is_revoked
(* C27: however two Register requests with the same email or the same
   username interleave, no two users rows share an email (in any case) or a
   username, and the request that finds the email or the username taken,
   at its existing-user query or at its insert, creates no row and is
   answered 409 conflict. *)
C27_ConcurrentRegisterConflicts ==
    [][\A p \in Procs :
        /\ \A u, v \in users' :
              (EqualIgnoringCase(u.email, v.email) \/ u.username = v.username) => u = v
        /\ (/\ Responded(p)
            /\ req'[p].op = "register"
            /\ pc[p] \in {"idle", "reg_insert"}
            /\ \E u \in users : \/ EqualIgnoringCase(u.email, req'[p].email)
                                 \/ u.username = req'[p].username)
           => /\ users' = users
              /\ resp'[p].status = 409
              /\ resp'[p].body.error = "conflict"
      ]_vars
(* The middleware lets the request of slot p through to its handler *)
Authenticated(p) ==
    \/ pc'[p] \in {"logout_revoke", "logoutall_revoke"}
    \/ pc'[p] = "idle" /\ resp'[p].status = 200

(* C28: authenticateToken lets a Logout or LogoutAll through exactly when its
   bearer token is signed with JWT_SECRET, is not expired and names a user
   that exists and is active, whatever the ledger holds: an access token
   issued before a Logout or LogoutAll is accepted until it expires. *)
C28_AuthenticationIgnoresLedger ==
    [][\A p \in Procs :
        (Started(p) /\ req'[p].op \in {"logout", "logout-all"})
        => LET B == req'[p].bearer
           IN  Authenticated(p)
               <=> /\ B # NoToken
                   /\ B.key = secrets.JWT_SECRET
                   /\ now < B.exp
                   /\ ActiveUser(B.payload.userId)
      ]_vars

(* A LogoutAll with an access token was let through although every ledger
   record of its user was revoked before *)
C28_Witness ==
    \E p \in Procs :
        /\ pc[p] = "logoutall_revoke"
        /\ GoodAccessToken(req[p].bearer, now)
        /\ ActiveUser(req[p].bearer.payload.userId)
        /\ \E r \in refresh_tokens : r.user_id = req[p].bearer.payload.userId
        /\ \A r \in refresh_tokens :
              r.user_id = req[p].bearer.payload.userId => r.is_revoked
(* C29: for both configurations of the secrets, a Logout or LogoutAll whose
   bearer token is a refresh token (its payload says type refresh) is not let
   through by authenticateToken: it is answered 401 and the ledger is as it
   was. *)
C29_RefreshTokenIsNoBearer ==
    [][\A p \in Procs :
        (/\ Started(p)
         /\ req'[p].op \in {"logout", "logout-all"}
         /\ req'[p].bearer # NoToken
         /\ "type" \in DOMAIN req'[p].bearer.payload
         /\ req'[p].bearer.payload.type = "refresh")
        => /\ ~Authenticated(p)
           /\ resp'[p].status = 401
           /\ refresh_tokens' = refresh_tokens
      ]_vars
(* The request q goes on the wire again in this step *)
Resent(q) == client'.calls[q].sends = client.calls[q].sends + 1 /\ client.calls[q].sends > 0

(* C30: for every call of api at most one refresh thunk is dispatched and
   the request goes on the wire at most twice; it is sent again only in the
   step in which its refresh is fulfilled, and then with the access token
   that refresh delivered, which is also the one the slice and the token
   manager hold; when its refresh is rejected, the slice is cleared (user
   null, token null, isAuthenticated false), the request is not sent again
   and it ends rejected; and a 401 answer to the request sent again ends it
   rejected without another refresh. *)
C30_InterceptorTerminates ==
    [][\A q \in Requests :
        LET call == client.calls[q]
            after == client'.calls[q]
        IN  /\ after.refreshes <= 1
            /\ after.sends <= 2
            /\ after.refreshes >= call.refreshes /\ after.sends >= call.sends
            /\ Resent(q)
               => /\ call.cpc = "refreshing"
                  /\ client'.minted = client.minted + 1
                  /\ after.Authorization = client'.minted
                  /\ client'.auth.token = client'.minted
                  /\ client'.auth.isAuthenticated
            /\ (call.cpc = "refreshing" /\ after.cpc # "refreshing" /\ ~Resent(q))
               => /\ client'.auth.user = "null"
                  /\ client'.auth.token = NoAccessToken
                  /\ ~client'.auth.isAuthenticated
                  /\ after.cpc = "done"
                  /\ after.outcome = "rejected"
            /\ (call.cpc = "sent" /\ call.sends = 2 /\ after.cpc # "sent")
               => after.cpc = "done"
      ]_vars

(* A request was answered 401, refreshed, sent again with the new token and
   answered 401 again: it ended rejected after one refresh and two sends *)
C30_Witness ==
    \E q \in Requests :
        /\ client.calls[q].cpc = "done"
        /\ client.calls[q].outcome = "rejected"
        /\ client.calls[q].sends = 2
        /\ client.calls[q].refreshes = 1
        /\ client.calls[q].Authorization # NoAccessToken
        /\ client.auth.isAuthenticated

====
